---- MODULE Spec2Model ----
(***************************************************************************)
(* Model of the message-buffering and outbound-automation core of the      *)
(* Luna backend:                                                           *)
(*   - app/services/loop.py   LoopManager (start_loop, stop_loop,          *)
(*                            _run_loop), add_contact, the loop tables     *)
(*   - app/routes/webhook.py  whatsapp_webhook (debounce buffer) and       *)
(*                            process_message (lock, gating, tool calls)   *)
(*   - app/routes/admin.py    run_automation, automation_scheduler,        *)
(*                            _run_automation_loop (running_automations)   *)
(* All three run as coroutines of one asyncio event loop: an action is the *)
(* code a coroutine executes between two suspension points.                *)
(***************************************************************************)
EXTENDS Integers, Sequences, FiniteSets, TLC

(***************************************************************************)
(* Bounds of the model                                                     *)
(***************************************************************************)
\* start_loop calls accepted in one behaviour (tasks ever created)
MaxStarts == 2
\* add_contact calls that insert a queue row
MaxAdds == 2
\* ticks of the wall clock of the loop model (DayLen ticks make one day)
MaxClock == 3
\* largest daily_limit an operator configures in the model
MaxLimit == 2
\* _run_automation_loop executions created in one behaviour
MaxAutos == 2
\* fragments the webhook accepts in one behaviour
MaxFragments == 3
\* seconds the clock of the webhook model runs
MaxNow == 16
\* process_message calls created in one behaviour of the pipeline model
MaxCalls == 2
\* pause events one run publishes before the clock lets it back into its window
MaxPauses == 2
\* ticks of the wall clock per day (the time of day is wall % DayLen)
DayLen == 3
\* progress streams opened in one behaviour
MaxStreams == 2
\* events a subscriber queue holds in the model (the program's queues hold
\* QUEUE_MAXSIZE)
MaxQueue == 2
\* events a stream replays in the model (the program replays up to
\* RECENT_EVENTS_LIMIT)
MaxReplay == 2

(***************************************************************************)
(* Program constants                                                       *)
(***************************************************************************)
DEFAULT_DAILY_LIMIT == 30
\* quiet period of the debounce buffer, in seconds
BUFFER_SECONDS == 7

\* MAX_HISTORY_MESSAGES: the rows get_history reads
MAX_HISTORY == 20
\* asyncio.Queue(maxsize=100) of a progress subscriber
QUEUE_MAXSIZE == 100
\* get_recent_events(instance_id, limit=50)
RECENT_EVENTS_LIMIT == 50

\* absent values: no task / no event in a registry slot, SQL NULL, no row
NoTask == 0
NullTime == -1
NoPhone == <<>>
NoContact == [id |-> 0, instance_id |-> "", phone |-> <<>>]
NoReply == [op |-> "", status |-> "", fact |-> FALSE]

(***************************************************************************)
(* State                                                                   *)
(***************************************************************************)
VARIABLES
    \* ---- database tables (app/pg.py) ----
    instances,        \* instances table: id -> row
    loop_settings,    \* instance_loop_settings: instance_id -> row
    loop_queue,       \* instance_loop_queue rows, in created_at order
    loop_totals,      \* instance_loop_totals rows, in insertion order
    loop_events,      \* instance_loop_events rows, in created_at order
    next_queue_id,    \* BIGSERIAL of instance_loop_queue
    \* ---- LoopManager (app/services/loop.py) ----
    tasks,            \* self._tasks: instance_id -> task (index into runs)
    stop_flags,       \* self._stop_flags: instance_id -> event (index into runs)
    listeners,        \* self._listeners: instance_id -> list of queues
    runs,             \* every _run_loop task ever created: locals and position
    wall,             \* wall clock of the loop model, in ticks
    reply,            \* outcome of the last start_loop / stop_loop / add_contact call
    streams,          \* every stream_progress generator ever opened: locals and position
    record_event_fails, \* whether the INSERT of _record_event raises at present
    \* ---- admin automation (app/routes/admin.py) ----
    running_automations,  \* registry: instance_id -> entry
    autos,            \* every _run_automation_loop execution: locals and position
    auto_settings,    \* instance_settings: instance_id -> row
    auto_queue,       \* instance_queue rows, in created_at order
    auto_totals,      \* instance_totals rows with mensagem_enviada = true (phones)
    auto_sends,       \* messages handed to the gateway by the automation loops
    day_phase,        \* time of day in Brasilia: early, start (07:30), open, late
    ultima_execucao,  \* the scheduler has run its 07:30 pass
    admin_reply,      \* outcome of the last run-automation / stop-automation call
    \* ---- webhook (app/routes/webhook.py) ----
    now,              \* clock of the event loop, in seconds
    pending_messages, \* debounce buffer: key -> entry (texts, last_update, timer)
    timers,           \* every process_buffered task ever created
    arrivals,         \* every fragment the webhook accepted, with its arrival time
    processing_lock,  \* number -> bool
    calls,            \* every process_message call ever created: locals and position
    ai_memory,        \* ai_memory rows, in timestamp order
    messages,         \* messages rows, in created_at order
    gateway           \* send_whatsapp_text requests, in the order they were made

loopVars == <<instances, loop_settings, loop_queue, loop_totals, loop_events,
              next_queue_id, tasks, stop_flags, listeners, runs, wall,
              reply>>

adminVars == <<running_automations, autos, auto_settings, auto_queue,
               auto_totals, auto_sends, day_phase, ultima_execucao, admin_reply>>

hookVars == <<now, pending_messages, timers, arrivals, processing_lock, calls,
              ai_memory, messages, gateway>>

streamVars == <<streams, record_event_fails>>

vars == <<loopVars, adminVars, hookVars, streamVars>>

(***************************************************************************)
(* Identifiers                                                             *)
(***************************************************************************)
\* "i1" has a row in instances; "ix" is an id with no instances row
InstIds == {"i1", "ix"}

\* raw phone inputs of add_contact: strings over digits and punctuation
RawPhones == {<<"1">>, <<"1", "-">>, <<"2">>, <<"-">>}
Digits == {"0", "1", "2", "3", "4", "5", "6", "7", "8", "9"}

\* sending windows of the model, <<window_start, window_end>> as time of day
Windows == {<<0, DayLen - 1>>, <<DayLen - 1, 0>>}
\* window_start / window_end column defaults ('08:00:00', '18:00:00')
DefaultWindow == <<1, 2>>

today == wall \div DayLen
time_of_day == wall % DayLen

(***************************************************************************)
(* loop.py helpers                                                         *)
(***************************************************************************)
IsDigit(c) == c \in Digits

\* _normalize_phone: keep the digits
_normalize_phone(phone) == SelectSeq(phone, IsDigit)

\* _ensure_settings: INSERT ... ON CONFLICT DO NOTHING, then SELECT.
\* The insert violates the foreign key when the instance has no row.
ensure_settings_raises(i) == i \notin DOMAIN instances

NewSettingsRow ==
    [daily_limit |-> 0, window_start |-> DefaultWindow[1],
     window_end |-> DefaultWindow[2], loop_status |-> "idle",
     last_run_at |-> NullTime]

settings_after_ensure(i) ==
    IF i \in DOMAIN loop_settings THEN loop_settings
    ELSE [k \in DOMAIN loop_settings \cup {i} |->
            IF k = i THEN NewSettingsRow ELSE loop_settings[k]]

\* COALESCE(daily_limit, DEFAULT_DAILY_LIMIT) and int(... or DEFAULT);
\* a NULL daily_limit is written 0, which the code treats alike
daily_cap_of(row) ==
    IF row.daily_limit = 0
    THEN DEFAULT_DAILY_LIMIT ELSE row.daily_limit

\* an update that writes running whatever status it is given
_update_loop_status_running(settings, i, status, last_run) ==
    IF i \in DOMAIN settings
    THEN [settings EXCEPT ![i].loop_status = "running"]
    ELSE settings

\* _update_loop_status: UPDATE ... WHERE instance_id = %s
_update_loop_status(settings, i, status, last_run) ==
    IF i \in DOMAIN settings
    THEN [settings EXCEPT ![i].loop_status = status,
                          ![i].last_run_at =
                              IF last_run THEN wall ELSE settings[i].last_run_at]
    ELSE settings

\* rows of instance_loop_totals counted by _compute_daily_sent
sent_today_rows(totals, i) ==
    {k \in DOMAIN totals : /\ totals[k].instance_id = i
                           /\ totals[k].mensagem_enviada
                           /\ totals[k].updated_day = today}

_compute_daily_sent(totals, i) == Cardinality(sent_today_rows(totals, i))

\* the quota test with a strict comparison (a run at the quota would go on)
quota_reached_strict(sent, cap) == sent > cap

\* "if sent_today >= daily_cap", at the start of a run and in each iteration
quota_reached(sent, cap) == sent >= cap

\* a window that is never closed
_within_window_always(r) == TRUE

\* _within_window, on the settings read when the run started
_within_window(r) ==
    IF r.window_start <= r.window_end
    THEN r.window_start <= time_of_day /\ time_of_day <= r.window_end
    ELSE time_of_day >= r.window_start \/ time_of_day <= r.window_end

\* _next_contact: oldest pending queue row of the instance
pending_rows(queue, i) == SelectSeq(queue, LAMBDA q : q.instance_id = i)

\* the newest pending row instead of the oldest
_next_contact_newest(queue, i) ==
    IF pending_rows(queue, i) = <<>> THEN NoContact
    ELSE pending_rows(queue, i)[Len(pending_rows(queue, i))]

_next_contact(queue, i) ==
    IF pending_rows(queue, i) = <<>> THEN NoContact
    ELSE Head(pending_rows(queue, i))

\* _get_instance_credentials: None when host or token is missing
_get_instance_credentials(i) ==
    IF i \in DOMAIN instances /\ instances[i].has_credentials
    THEN "host_token" ELSE ""

(***************************************************************************)
(* Events: LoopManager._publish                                            *)
(***************************************************************************)
Event(i, type, detail, phone, t) ==
    [instance_id |-> i, event_type |-> type, detail |-> detail,
     phone |-> phone, task |-> t]

\* _record_event: the INSERT fails (and _publish swallows the failure) when
\* the instance has no row or the statement raises
events_after_publish(events, i, es) ==
    IF i \in DOMAIN instances /\ ~record_event_fails THEN events \o es ELSE events

\* the capacity of a subscriber queue, scaled down to the bound of the model
queue_maxsize == IF QUEUE_MAXSIZE < MaxQueue THEN QUEUE_MAXSIZE ELSE MaxQueue

\* q.put_nowait(payload), QueueFull ignored
put_nowait(q, e) == IF Len(q) < queue_maxsize THEN Append(q, e) ELSE q

RECURSIVE put_all(_, _)
put_all(q, es) == IF es = <<>> THEN q ELSE put_all(put_nowait(q, Head(es)), Tail(es))

\* a fan-out that the failure of _record_event prevents
listeners_after_record(ls, i, es) ==
    [k \in DOMAIN ls |->
        IF k = i /\ ~record_event_fails
        THEN [n \in DOMAIN ls[k] |-> put_all(ls[k][n], es)] ELSE ls[k]]

listeners_after_publish(ls, i, es) ==
    [k \in DOMAIN ls |->
        IF k = i THEN [n \in DOMAIN ls[k] |-> put_all(ls[k][n], es)] ELSE ls[k]]

\* _publish, for the events es one step publishes, in order
_publish(i, es) ==
    /\ loop_events' = events_after_publish(loop_events, i, es)
    /\ listeners' = listeners_after_publish(listeners, i, es)

(***************************************************************************)
(* LoopManager._mark_contact_sent                                          *)
(***************************************************************************)
\* a queue that keeps the row (the contact would be tried again)
queue_kept(queue, queue_id) == queue

queue_after_delete(queue, queue_id) ==
    SelectSeq(queue, LAMBDA q : q.id # queue_id)

totals_index(totals, i, phone) ==
    {k \in DOMAIN totals : totals[k].instance_id = i /\ totals[k].phone = phone}

\* a totals INSERT without the ON CONFLICT clause
totals_after_insert(totals, i, phone, sent, status) ==
    Append(totals, [instance_id |-> i, phone |-> phone, mensagem_enviada |-> sent,
                    status |-> status, updated_day |-> today])

\* INSERT ... ON CONFLICT (instance_id, phone) DO UPDATE
totals_after_upsert(totals, i, phone, sent, status) ==
    LET row == [instance_id |-> i, phone |-> phone, mensagem_enviada |-> sent,
                status |-> status, updated_day |-> today]
    IN  IF totals_index(totals, i, phone) = {}
        THEN Append(totals, row)
        ELSE [k \in DOMAIN totals |->
                IF k \in totals_index(totals, i, phone) THEN row ELSE totals[k]]

_mark_contact_sent(i, queue_id, phone, sent, status) ==
    /\ loop_queue' = queue_after_delete(loop_queue, queue_id)
    /\ loop_totals' = totals_after_upsert(loop_totals, i, phone, sent, status)

(***************************************************************************)
(* LoopManager: task registry                                              *)
(***************************************************************************)
task_done(t) == runs[t].pc \in {"done", "failed", "killed"}

\* is_running without the task.done() test
is_running_any_task(i) == tasks[i] # NoTask

\* is_running: task is not None and not task.done()
is_running(i) == tasks[i] # NoTask /\ ~task_done(tasks[i])

\* the _run_loop tasks of instance i that have not finished
live_tasks(i) == {t \in DOMAIN runs : runs[t].instance_id = i /\ ~task_done(t)}

NewRun(i) ==
    [instance_id |-> i, pc |-> "created", stop |-> FALSE,
     window_start |-> 0, window_end |-> 0, daily_cap |-> 0, sent_today |-> 0,
     processed |-> 0, contact |-> NoContact, quota_at_start |-> FALSE,
     attempts |-> 0, ends |-> 0, pauses |-> 0]

\* start_loop
start_loop(i) ==
    /\ IF is_running(i)
       THEN /\ reply' = [op |-> "start_loop", status |-> "409",
                         fact |-> live_tasks(i) # {}]
            /\ UNCHANGED <<tasks, stop_flags, runs>>
       ELSE /\ Len(runs) < MaxStarts
            /\ runs' = Append(runs, NewRun(i))
            /\ stop_flags' = [stop_flags EXCEPT ![i] = Len(runs) + 1]
            /\ tasks' = [tasks EXCEPT ![i] = Len(runs) + 1]
            /\ reply' = [op |-> "start_loop", status |-> "started",
                         fact |-> live_tasks(i) # {}]
    /\ UNCHANGED <<instances, loop_settings, loop_queue, loop_totals,
                   loop_events, next_queue_id, listeners, wall>>

\* stop_loop
stop_loop(i) ==
    /\ IF stop_flags[i] = NoTask
       THEN /\ reply' = [op |-> "stop_loop", status |-> "404",
                         fact |-> live_tasks(i) # {}]
            /\ UNCHANGED runs
       ELSE /\ runs' = [runs EXCEPT ![stop_flags[i]].stop = TRUE]
            /\ reply' = [op |-> "stop_loop", status |-> "stopping",
                         fact |-> live_tasks(i) # {}]
    /\ UNCHANGED <<instances, loop_settings, loop_queue, loop_totals,
                   loop_events, next_queue_id, tasks, stop_flags, listeners,
                   wall>>

(***************************************************************************)
(* LoopManager._run_loop                                                   *)
(***************************************************************************)
count_ends(es) == Len(SelectSeq(es, LAMBDA e : e.event_type = "end"))

\* finally: _update_loop_status(idle, last_run=True), pop task and stop flag
run_loop_finally(t, r, settings, es) ==
    /\ runs' = [runs EXCEPT ![t] =
                   [r EXCEPT !.pc = "done", !.contact = NoContact,
                             !.ends = r.ends + count_ends(es)]]
    /\ loop_settings' = _update_loop_status(settings, r.instance_id, "idle", TRUE)
    /\ tasks' = [tasks EXCEPT ![r.instance_id] = NoTask]
    /\ stop_flags' = [stop_flags EXCEPT ![r.instance_id] = NoTask]
    /\ _publish(r.instance_id, es)

\* the task suspends at an await with locals r
run_loop_await(t, r, settings, es) ==
    /\ runs' = [runs EXCEPT ![t] = r]
    /\ loop_settings' = settings
    /\ _publish(r.instance_id, es)
    /\ UNCHANGED <<tasks, stop_flags>>

\* one pass that does not look at the stop flag
run_loop_iteration_unstoppable(t, r, settings, es) ==
    LET i == r.instance_id
        contact == _next_contact(loop_queue, i)
    IN  IF ~_within_window(r)
        THEN run_loop_await(t, [r EXCEPT !.pc = "sleep_window",
                                         !.pauses = r.pauses + 1], settings,
                 Append(es, Event(i, "pause", "outside_window", NoPhone, t)))
        ELSE IF contact = NoContact
        THEN run_loop_finally(t, r, settings,
                 Append(es, Event(i, "end", IF r.stop THEN "manual_stop" ELSE "completed",
                                  NoPhone, t)))
        ELSE IF quota_reached(r.sent_today, r.daily_cap)
        THEN run_loop_finally(t, r, settings,
                 es \o <<Event(i, "end", "daily_quota", NoPhone, t),
                         Event(i, "end", IF r.stop THEN "manual_stop" ELSE "completed",
                               NoPhone, t)>>)
        ELSE run_loop_await(t, [r EXCEPT !.pc = "sending", !.contact = contact,
                                         !.attempts = r.attempts + 1],
                            settings, es)

\* one pass with the quota tested before the queue
run_loop_iteration_quota_first(t, r, settings, es) ==
    LET i == r.instance_id
        contact == _next_contact(loop_queue, i)
    IN  IF r.stop
        THEN run_loop_finally(t, r, settings,
                 Append(es, Event(i, "end", "manual_stop", NoPhone, t)))
        ELSE IF ~_within_window(r)
        THEN run_loop_await(t, [r EXCEPT !.pc = "sleep_window",
                                         !.pauses = r.pauses + 1], settings,
                 Append(es, Event(i, "pause", "outside_window", NoPhone, t)))
        ELSE IF quota_reached(r.sent_today, r.daily_cap)
        THEN run_loop_finally(t, r, settings,
                 es \o <<Event(i, "end", "daily_quota", NoPhone, t),
                         Event(i, "end", "completed", NoPhone, t)>>)
        ELSE IF contact = NoContact
        THEN run_loop_finally(t, r, settings,
                 Append(es, Event(i, "end", "completed", NoPhone, t)))
        ELSE run_loop_await(t, [r EXCEPT !.pc = "sending", !.contact = contact,
                                         !.attempts = r.attempts + 1],
                            settings, es)

\* one pass from "while not stop_event.is_set()" to the next await or exit
run_loop_iteration(t, r, settings, es) ==
    LET i == r.instance_id
        contact == _next_contact(loop_queue, i)
    IN  IF r.stop
        THEN run_loop_finally(t, r, settings,
                 Append(es, Event(i, "end", "manual_stop", NoPhone, t)))
        ELSE IF ~_within_window(r)
        THEN run_loop_await(t, [r EXCEPT !.pc = "sleep_window",
                                         !.pauses = r.pauses + 1], settings,
                 Append(es, Event(i, "pause", "outside_window", NoPhone, t)))
        ELSE IF contact = NoContact
        THEN run_loop_finally(t, r, settings,
                 Append(es, Event(i, "end", "completed", NoPhone, t)))
        ELSE IF quota_reached(r.sent_today, r.daily_cap)
        THEN run_loop_finally(t, r, settings,
                 es \o <<Event(i, "end", "daily_quota", NoPhone, t),
                         Event(i, "end", "completed", NoPhone, t)>>)
        ELSE run_loop_await(t, [r EXCEPT !.pc = "sending", !.contact = contact,
                                         !.attempts = r.attempts + 1],
                            settings, es)

\* the task's first step: lines 406-430
run_loop_enter(t) ==
    /\ runs[t].pc = "created"
    /\ UNCHANGED <<instances, loop_queue, loop_totals, next_queue_id, wall,
                   reply>>
    /\ LET i == runs[t].instance_id IN
       IF ensure_settings_raises(i)
       THEN \* the exception leaves the task before the try block
            /\ runs' = [runs EXCEPT ![t].pc = "failed"]
            /\ UNCHANGED <<loop_settings, loop_events, tasks, stop_flags,
                           listeners>>
       ELSE LET s1 == settings_after_ensure(i)
                s2 == _update_loop_status(s1, i, "running", FALSE)
                cap == daily_cap_of(s1[i])
                sent == _compute_daily_sent(loop_totals, i)
                r == [runs[t] EXCEPT !.window_start = s1[i].window_start,
                                     !.window_end = s1[i].window_end,
                                     !.daily_cap = cap, !.sent_today = sent,
                                     !.quota_at_start = (sent >= cap)]
                started == <<Event(i, "start", "", NoPhone, t)>>
            IN  IF quota_reached(sent, cap)
                THEN run_loop_finally(t, r, s2,
                         Append(started, Event(i, "end", "daily_quota", NoPhone, t)))
                ELSE IF _get_instance_credentials(i) = ""
                THEN run_loop_finally(t, r, s2,
                         Append(started, Event(i, "error", "no_credentials", NoPhone, t)))
                ELSE run_loop_iteration(t, r, s2, started)

\* uazapi.send_text returns (ok) or raises (~ok): lines 445-457
run_loop_sent(t, ok) ==
    /\ runs[t].pc = "sending"
    /\ LET r == runs[t]
           i == r.instance_id
           c == r.contact
       IN  /\ _mark_contact_sent(i, c.id, c.phone, ok, IF ok THEN "sent" ELSE "error")
           /\ runs' = [runs EXCEPT ![t] =
                  [r EXCEPT !.pc = "sleep_delay",
                            !.processed = IF ok THEN r.processed + 1 ELSE r.processed,
                            !.sent_today = IF ok THEN r.sent_today + 1 ELSE r.sent_today]]
           /\ _publish(i, <<Event(i, "item", IF ok THEN "sent" ELSE "error", c.phone, t)>>)
    /\ UNCHANGED <<instances, loop_settings, next_queue_id, tasks, stop_flags,
                   wall, reply>>

\* asyncio.sleep(60) or asyncio.sleep(MIN_DELAY_SECONDS) returns
run_loop_wake(t) ==
    /\ runs[t].pc \in {"sleep_delay", "sleep_window"}
    \* the poll of a run still outside its window repeats at most MaxPauses times
    /\ \/ runs[t].pauses < MaxPauses
       \/ runs[t].stop
       \/ _within_window(runs[t])
    /\ run_loop_iteration(t, [runs[t] EXCEPT !.pc = "running", !.contact = NoContact],
                          loop_settings, <<>>)
    /\ UNCHANGED <<instances, loop_queue, loop_totals, next_queue_id, wall,
                   reply>>

(***************************************************************************)
(* add_contact                                                             *)
(***************************************************************************)
\* add_contact without the look at the totals row
add_contact_unchecked(i, phone) ==
    LET norm_phone == _normalize_phone(phone)
        sent_rows == {k \in totals_index(loop_totals, i, norm_phone) :
                         loop_totals[k].mensagem_enviada}
    IN  /\ phone # <<>> /\ norm_phone # <<>> /\ i \in DOMAIN instances
        /\ next_queue_id <= MaxAdds
        /\ loop_queue' = Append(loop_queue,
               [id |-> next_queue_id, instance_id |-> i, phone |-> norm_phone])
        /\ next_queue_id' = next_queue_id + 1
        /\ reply' = [op |-> "add_contact", status |-> "ok", fact |-> sent_rows # {}]
        /\ UNCHANGED <<instances, loop_settings, loop_totals, loop_events, tasks,
                       stop_flags, listeners, runs, wall>>

add_contact(i, phone) ==
    LET norm_phone == _normalize_phone(phone)
        sent_rows == {k \in totals_index(loop_totals, i, norm_phone) :
                         loop_totals[k].mensagem_enviada}
    IN  /\ IF phone = <<>> \/ norm_phone = <<>>
           THEN /\ reply' = [op |-> "add_contact", status |-> "400", fact |-> sent_rows # {}]
                /\ UNCHANGED <<loop_queue, next_queue_id>>
           ELSE IF sent_rows # {}
           THEN /\ reply' = [op |-> "add_contact", status |-> "skipped", fact |-> sent_rows # {}]
                /\ UNCHANGED <<loop_queue, next_queue_id>>
           ELSE IF i \notin DOMAIN instances
           THEN \* the INSERT violates the foreign key
                /\ reply' = [op |-> "add_contact", status |-> "error", fact |-> sent_rows # {}]
                /\ UNCHANGED <<loop_queue, next_queue_id>>
           ELSE /\ next_queue_id <= MaxAdds
                /\ loop_queue' = Append(loop_queue,
                       [id |-> next_queue_id, instance_id |-> i, phone |-> norm_phone])
                /\ next_queue_id' = next_queue_id + 1
                /\ reply' = [op |-> "add_contact", status |-> "ok", fact |-> sent_rows # {}]
        /\ UNCHANGED <<instances, loop_settings, loop_totals, loop_events, tasks,
                       stop_flags, listeners, runs, wall>>

\* the wall clock advances
Tick ==
    /\ wall < MaxClock
    /\ wall' = wall + 1
    /\ UNCHANGED <<instances, loop_settings, loop_queue, loop_totals, loop_events,
                   next_queue_id, tasks, stop_flags, listeners, runs, reply>>


(***************************************************************************)
(* Admin automation: run_automation, stop_automation, automation_scheduler *)
(* and _run_automation_loop (app/routes/admin.py)                          *)
(***************************************************************************)
NoEntry == [present |-> FALSE, stop_requested |-> FALSE]

Phases == <<"early", "start", "open", "late">>

\* executions of instance i that registered themselves and have not ended
active_autos(i) ==
    {a \in DOMAIN autos : autos[a].instance_id = i
                          /\ autos[a].pc \notin {"scheduled", "done"}}

NewAuto(i, origin) ==
    [instance_id |-> i, pc |-> "scheduled", origin |-> origin,
     remaining |-> 0, iteration |-> 0, processed |-> 0, phone |-> NoPhone]

\* POST /instances/{id}/run-automation
run_automation(i) ==
    /\ IF running_automations[i].present
       THEN /\ admin_reply' = [op |-> "run", status |-> "409",
                               fact |-> active_autos(i) # {}]
            /\ UNCHANGED autos
       ELSE IF i \notin DOMAIN instances
       THEN \* _ensure_instance_exists
            /\ admin_reply' = [op |-> "run", status |-> "404",
                               fact |-> active_autos(i) # {}]
            /\ UNCHANGED autos
       ELSE \* background_tasks.add_task: the loop starts after the response
            /\ Len(autos) < MaxAutos
            /\ autos' = Append(autos, NewAuto(i, "request"))
            /\ admin_reply' = [op |-> "run", status |-> "ok",
                               fact |-> active_autos(i) # {}]
    /\ UNCHANGED <<running_automations, auto_settings, auto_queue, auto_totals,
                   auto_sends, day_phase, ultima_execucao>>

\* POST /instances/{id}/stop-automation
stop_automation(i) ==
    /\ IF ~running_automations[i].present
       THEN /\ admin_reply' = [op |-> "stop", status |-> "404",
                               fact |-> active_autos(i) # {}]
            /\ UNCHANGED running_automations
       ELSE /\ running_automations' =
                   [running_automations EXCEPT ![i].stop_requested = TRUE]
            /\ admin_reply' = [op |-> "stop", status |-> "ok",
                               fact |-> active_autos(i) # {}]
    /\ UNCHANGED <<autos, auto_settings, auto_queue, auto_totals, auto_sends,
                   day_phase, ultima_execucao>>

\* instances the scheduler selects: auto_run = true, joined with instances
scheduler_instances ==
    {i \in DOMAIN instances \cap DOMAIN auto_settings : auto_settings[i].auto_run}

RECURSIVE create_tasks(_, _)
create_tasks(as, is) ==
    IF is = {} THEN as
    ELSE LET i == CHOOSE x \in is : TRUE
         IN  create_tasks(Append(as, NewAuto(i, "scheduler")), is \ {i})

\* one pass of automation_scheduler at 07:30 of a business day
automation_scheduler ==
    /\ day_phase = "start"
    /\ ~ultima_execucao
    /\ ultima_execucao' = TRUE
    /\ LET todo == {i \in scheduler_instances : ~running_automations[i].present}
       IN  /\ Len(autos) + Cardinality(todo) <= MaxAutos
           /\ autos' = create_tasks(autos, todo)
    /\ UNCHANGED <<running_automations, auto_settings, auto_queue, auto_totals,
                   auto_sends, day_phase, admin_reply>>

\* finally: the execution removes the registry entry of its instance
automation_finally(a, r) ==
    /\ autos' = [autos EXCEPT ![a] = [r EXCEPT !.pc = "done", !.phone = NoPhone]]
    /\ running_automations' =
           [running_automations EXCEPT ![r.instance_id] = NoEntry]

\* "SELECT ... FROM instance_queue q LEFT JOIN instance_totals t ..."
auto_pending(i) ==
    SelectSeq(auto_queue,
              LAMBDA q : q.instance_id = i /\ q \notin auto_totals)

\* one pass of "for i in range(remaining)" up to the send or the exit;
\* reg is the registry as this step has left it so far
automation_iteration(a, r, reg) ==
    LET i == r.instance_id IN
    IF \/ r.iteration >= r.remaining
       \/ (reg[i].present /\ reg[i].stop_requested)
       \/ day_phase = "late"
       \/ auto_pending(i) = <<>>
    THEN automation_finally(a, r)
    ELSE /\ autos' = [autos EXCEPT ![a] =
                [r EXCEPT !.pc = "sending", !.phone = Head(auto_pending(i)).phone]]
         /\ running_automations' = reg

\* the execution starts: it registers itself, reads its settings and either
\* ends, waits for 07:30 or enters the loop
automation_begin(a) ==
    /\ autos[a].pc = "scheduled"
    /\ LET i == autos[a].instance_id
           reg == [running_automations EXCEPT
                      ![i] = [present |-> TRUE, stop_requested |-> FALSE]]
           sent == Cardinality({q \in auto_totals : q.instance_id = i})
           left == IF i \in DOMAIN auto_settings
                   THEN IF auto_settings[i].daily_limit > sent
                        THEN auto_settings[i].daily_limit - sent ELSE 0
                   ELSE 0
           r == [autos[a] EXCEPT !.remaining = left]
       IN  IF \/ i \notin DOMAIN auto_settings \/ i \notin DOMAIN instances
              \/ ~instances[i].has_credentials
              \/ left <= 0
              \/ day_phase = "late"
           THEN automation_finally(a, r)
           ELSE IF day_phase = "early"
           THEN /\ autos' = [autos EXCEPT ![a] = [r EXCEPT !.pc = "sleep_start"]]
                /\ running_automations' = reg
           ELSE automation_iteration(a, r, reg)
    /\ UNCHANGED <<auto_settings, auto_queue, auto_totals, auto_sends, day_phase,
                   ultima_execucao, admin_reply>>

\* asyncio.sleep(wait_seconds) returns at 07:30
automation_start_reached(a) ==
    /\ autos[a].pc = "sleep_start"
    /\ day_phase # "early"
    /\ IF day_phase = "late"
       THEN automation_finally(a, autos[a])
       ELSE automation_iteration(a, autos[a], running_automations)
    /\ UNCHANGED <<auto_settings, auto_queue, auto_totals, auto_sends, day_phase,
                   ultima_execucao, admin_reply>>

\* _send_whatsapp_message returns success
automation_sent(a, success) ==
    /\ autos[a].pc = "sending"
    /\ LET r == autos[a]
           row == [instance_id |-> r.instance_id, phone |-> r.phone]
       IN  /\ auto_totals' = IF success THEN auto_totals \cup {row} ELSE auto_totals
           /\ auto_queue' = SelectSeq(auto_queue, LAMBDA q : q # row)
           /\ auto_sends' = Append(auto_sends,
                  [task |-> a, instance_id |-> r.instance_id, phone |-> r.phone,
                   success |-> success])
           /\ autos' = [autos EXCEPT ![a] =
                  [r EXCEPT !.pc = "sleep_delay",
                            !.processed = IF success THEN r.processed + 1
                                          ELSE r.processed]]
    /\ UNCHANGED <<running_automations, auto_settings, day_phase,
                   ultima_execucao, admin_reply>>

\* asyncio.sleep(delay) returns: next iteration of the for loop
automation_wake(a) ==
    /\ autos[a].pc = "sleep_delay"
    /\ automation_iteration(a, [autos[a] EXCEPT !.iteration = autos[a].iteration + 1,
                                               !.phone = NoPhone],
                            running_automations)
    /\ UNCHANGED <<auto_settings, auto_queue, auto_totals, auto_sends, day_phase,
                   ultima_execucao, admin_reply>>

\* the day advances
next_phase ==
    /\ day_phase # "late"
    /\ day_phase' = Phases[1 + CHOOSE k \in 1..Len(Phases) : Phases[k] = day_phase]
    /\ UNCHANGED <<running_automations, autos, auto_settings, auto_queue,
                   auto_totals, auto_sends, ultima_execucao, admin_reply>>

AdminIdle ==
    /\ running_automations = [i \in InstIds |-> NoEntry]
    /\ autos = <<>>
    /\ auto_settings = <<>>
    /\ auto_queue = <<>>
    /\ auto_totals = {}
    /\ auto_sends = <<>>
    /\ day_phase = "early"
    /\ ultima_execucao = FALSE
    /\ admin_reply = NoReply

AutoQueues ==
    {<<>>,
     <<[instance_id |-> "i1", phone |-> <<"1">>]>>,
     <<[instance_id |-> "i1", phone |-> <<"1">>],
       [instance_id |-> "i1", phone |-> <<"2">>]>>}


(***************************************************************************)
(* Webhook ingestion and the debounce buffer (app/routes/webhook.py)       *)
(***************************************************************************)
NoInstance == ""
NoNumber == <<>>
NoText == <<>>

\* payload values of the model: owner phones, sender fields, message texts
Owners == {"p1", "p2", ""}
RawNumbers == {<<"1">>, <<"1", "@", "s">>, <<"2">>, <<>>}
RawTexts == {<<"o", "i">>, <<" ", "x", "?", " ">>, <<" ">>}
Numbers == {<<"1">>, <<"2">>}

\* "".join(c for c in str(num) if c.isdigit())
normalize_number(num) == SelectSeq(num, IsDigit)

RECURSIVE lstrip(_)
lstrip(s) == IF s # <<>> /\ Head(s) = " " THEN lstrip(Tail(s)) ELSE s

RECURSIVE rstrip(_)
rstrip(s) ==
    IF s # <<>> /\ s[Len(s)] = " " THEN rstrip(SubSeq(s, 1, Len(s) - 1)) ELSE s

\* val.strip()
strip(s) == rstrip(lstrip(s))

\* extract_text over a payload whose only text field holds val
extract_text(val) == IF strip(val) # <<>> THEN strip(val) ELSE NoText

\* the row "ORDER BY created_at DESC" puts first
newest(rows) ==
    CHOOSE i \in rows : \A j \in rows : instances[j].created_at <= instances[i].created_at

\* the instance the webhook resolves from chat.owner: the most recent
\* connected one with that phone_number, else the most recent one
instance_by_owner(owner) ==
    LET rows == {i \in DOMAIN instances : instances[i].phone_number = owner}
        connected == {i \in rows : instances[i].status = "connected"}
    IN  IF owner = "" \/ rows = {} THEN NoInstance
        ELSE IF connected # {} THEN newest(connected)
        ELSE newest(rows)

\* INSERT INTO messages (save_message)
\* a save that stores nothing
save_message_lost(msgs, instance_id, chatid, text, direction) == msgs

save_message(msgs, instance_id, chatid, text, direction) ==
    Append(msgs, [instance_id |-> instance_id, chat_id |-> chatid,
                  content |-> text, from_me |-> (direction = "out")])

\* " ".join(texts), folding from the left
RECURSIVE join(_, _)
join(acc, texts) ==
    IF texts = <<>> THEN acc
    ELSE join(acc \o <<" ">> \o Head(texts), Tail(texts))

combined_text(texts) == IF texts = <<>> THEN <<>> ELSE join(Head(texts), Tail(texts))

\* a buffer that leaves the previous timer running
cancel_ignored(ts, t) == ts

\* a cancel that reaches every sleeping timer, whatever its key
cancel_every(ts, t) ==
    [k \in DOMAIN ts |->
        IF ts[k].state = "sleeping" THEN [ts[k] EXCEPT !.state = "cancelled"] ELSE ts[k]]

\* task.cancel(): a task that has ended is not affected

cancel(ts, t) ==
    IF ts[t].state = "sleeping" THEN [ts EXCEPT ![t].state = "cancelled"] ELSE ts

\* a new timer that keeps the due time of the one it replaces (fixed window)
timers_after_create_task_fixed(ts, key) ==
    Append(ts, [key |-> key,
                due |-> IF key \in DOMAIN pending_messages
                        THEN ts[pending_messages[key].timer].due
                        ELSE now + BUFFER_SECONDS,
                state |-> "sleeping"])

\* asyncio.create_task(process_buffered()): the task sleeps BUFFER_SECONDS
timers_after_create_task(ts, key) ==
    Append(ts, [key |-> key, due |-> now + BUFFER_SECONDS, state |-> "sleeping"])

\* the last n elements of a sequence
last_n(seq, n) ==
    IF Len(seq) <= n THEN seq ELSE SubSeq(seq, Len(seq) - n + 1, Len(seq))

NoToolCall == [index |-> 0, type |-> "", name |-> "", valid |-> FALSE, text |-> <<>>]

NewCall(instance_id, number, text) ==
    [instance_id |-> instance_id, number |-> number, text |-> text,
     pc |-> "created", created_at |-> now, acquired |-> FALSE,
     outcome |-> "", tool_calls |-> <<>>, todo |-> <<>>, current |-> NoToolCall,
     executed |-> <<>>, history |-> <<>>]

\* asyncio.create_task(process_message(instance_id, number, combined_text))
calls_after_create_task(cs, instance_id, number, text) ==
    Append(cs, NewCall(instance_id, number, text))

\* POST /webhook: one delivery, from the parsed payload to the response
whatsapp_webhook(owner, raw_number, from_me, raw_text) ==
    LET instance_id == instance_by_owner(owner)
        number == normalize_number(raw_number)
        text == extract_text(raw_text)
        key == <<instance_id, number>>
    IN  /\ Len(arrivals) < MaxFragments
        /\ IF instance_id = NoInstance \/ number = NoNumber \/ from_me \/ text = NoText
           THEN \* ignored: no_instance_id, no_number, from_me, no_text
                UNCHANGED <<pending_messages, timers, arrivals, messages>>
           ELSE /\ messages' = save_message(messages, instance_id, number, text, "in")
                /\ arrivals' = Append(arrivals,
                       [key |-> key, text |-> text, at |-> now, call |-> 0])
                /\ IF key \in DOMAIN pending_messages
                   THEN LET entry == pending_messages[key]
                            cancelled == cancel(timers, entry.timer)
                        IN  /\ timers' = timers_after_create_task(cancelled, key)
                            /\ pending_messages' = [pending_messages EXCEPT ![key] =
                                   [texts |-> Append(entry.texts, text),
                                    last_update |-> now,
                                    timer |-> Len(timers) + 1]]
                   ELSE /\ timers' = timers_after_create_task(timers, key)
                        /\ pending_messages' = pending_messages @@
                               (key :> [texts |-> <<text>>, last_update |-> now,
                                        timer |-> Len(timers) + 1])
        /\ UNCHANGED <<now, processing_lock, calls, ai_memory, gateway>>

\* process_buffered after its asyncio.sleep(BUFFER_SECONDS)
process_buffered(t) ==
    /\ timers[t].state = "sleeping"
    /\ now >= timers[t].due
    /\ timers' = [timers EXCEPT ![t].state = "done"]
    /\ LET key == timers[t].key IN
       IF key \in DOMAIN pending_messages
       THEN /\ pending_messages' =
                   [k \in DOMAIN pending_messages \ {key} |-> pending_messages[k]]
            /\ calls' = calls_after_create_task(calls, key[1], key[2],
                            combined_text(pending_messages[key].texts))
            /\ arrivals' = [j \in DOMAIN arrivals |->
                   IF arrivals[j].key = key /\ arrivals[j].call = 0
                   THEN [arrivals[j] EXCEPT !.call = Len(calls) + 1]
                   ELSE arrivals[j]]
       ELSE UNCHANGED <<pending_messages, calls, arrivals>>
    /\ UNCHANGED <<now, processing_lock, ai_memory, messages, gateway>>

\* one second passes; a sleep that is over wakes its task first.  The clock
\* is only followed while some timer sleeps: with no timer the program holds
\* no time, and the next delivery starts a buffer whatever the hour.
tick ==
    /\ now < MaxNow
    /\ \E t \in DOMAIN timers : timers[t].state = "sleeping"
    /\ \A t \in DOMAIN timers : timers[t].state = "sleeping" => now < timers[t].due
    /\ now' = now + 1
    /\ UNCHANGED <<pending_messages, timers, arrivals, processing_lock, calls,
                   ai_memory, messages, gateway>>

HookIdle ==
    /\ now = 0
    /\ pending_messages = <<>>
    /\ timers = <<>>
    /\ arrivals = <<>>
    /\ processing_lock = [n \in Numbers |-> FALSE]
    /\ calls = <<>>
    /\ ai_memory = <<>>
    /\ messages = <<>>
    /\ gateway = <<>>


(***************************************************************************)
(* process_message: lock, gating, model call, tool calls                   *)
(* (app/routes/webhook.py)                                                 *)
(***************************************************************************)
\* os.getenv("REDIRECT_PHONE", "")
REDIRECT_PHONE == ""

NoConfig == [found |-> FALSE, status |-> "", admin_status |-> "", redirect_phone |-> ""]

\* the dict get_instance_config returns, or None: no row, or no prompt
get_instance_config(instance_id) ==
    IF instance_id \notin DOMAIN instances THEN NoConfig
    ELSE IF instances[instance_id].prompt = "" THEN NoConfig
    ELSE [found |-> TRUE,
          status |-> instances[instance_id].status,
          admin_status |-> instances[instance_id].admin_status,
          redirect_phone |-> instances[instance_id].redirect_phone]

\* a gate that admits every config
gate_open(config) == "pass"

\* the gate of process_message: why the call ends, or "pass"
gate(config) ==
    IF ~config.found THEN "no_config"
    ELSE IF config.admin_status \notin {"configured", "active"} THEN "not_configured"
    ELSE IF config.status # "connected" THEN "disconnected"
    ELSE "pass"

\* INSERT INTO ai_memory (save_to_ai_memory)
\* a memory write that stores nothing
save_to_ai_memory_lost(mem, instance_id, role, content, number, function) == mem

save_to_ai_memory(mem, instance_id, role, content, number, function) ==
    Append(mem, [instance_id |-> instance_id, role |-> role, content |-> content,
                 number |-> number, function |-> function])

\* send_whatsapp_text: the request handed to the gateway
gateway_after_send(gw, c, number, text, kind) ==
    Append(gw, [call |-> c, number |-> number, text |-> text, kind |-> kind])

\* choice.upper()
upper(choice) ==
    CASE choice = "sim" -> "SIM" [] choice = "nao" -> "NAO" [] OTHER -> choice

RECURSIVE menu_lines(_, _)
menu_lines(choices, i) ==
    IF choices = <<>> THEN <<>>
    ELSE <<i, ".", " ", upper(Head(choices)), "\n">> \o menu_lines(Tail(choices), i + 1)

\* menu_text: question, blank line, numbered upper-case choices, footer
menu_text(question, choices, footer) ==
    question \o <<"\n", "\n">> \o menu_lines(choices, 1) \o <<"\n", footer>>

\* the text a tool call hands to the gateway
text_to_send(call) ==
    IF call.name = "send_menu"
    THEN menu_text(call.text, <<"sim", "nao">>, "Escolha uma opcao")
    ELSE call.text

\* tool_calls in the order the model returned them (no reordering)
original_order(tool_calls) == SelectSeq(tool_calls, LAMBDA call : call.type = "function")

\* ordered_calls = non_handoff_calls + handoff_calls
ordered_calls(tool_calls) ==
    SelectSeq(tool_calls, LAMBDA call : call.type = "function" /\ call.name # "handoff")
    \o SelectSeq(tool_calls, LAMBDA call : call.type = "function" /\ call.name = "handoff")

\* a rejected call that is put back to run again later instead of ending
call_deferred(r, outcome) ==
    IF outcome = "rejected"
    THEN [r EXCEPT !.outcome = outcome]
    ELSE [r EXCEPT !.pc = "done", !.outcome = outcome, !.todo = <<>>,
                   !.current = NoToolCall]

\* a call that has returned: its outcome is why it returned
call_ended(r, outcome) ==
    [r EXCEPT !.pc = "done", !.outcome = outcome, !.todo = <<>>, !.current = NoToolCall]

\* the lock as a rejected call would leave it, had it run the finally
lock_released(lock, number) == [lock EXCEPT ![number] = FALSE]

\* "return" at the lock check, in the first try: nothing is assigned
lock_after_rejection(lock, number) == lock

\* the lock after a step of a call that holds it, had the release been placed
\* at the end of the try body: an exception would skip it
lock_without_finally(lock, r) ==
    [lock EXCEPT ![r.number] = (r.pc # "done" \/ r.outcome = "exception")]

\* the lock after a step of the call that holds it: "finally:
\* processing_lock[number] = False" runs as the call leaves the second try
lock_after_step(lock, r) == [lock EXCEPT ![r.number] = (r.pc # "done")]

\* "for call in ordered_calls": runs the calls of r.todo up to the next send
\* or to the end; yields the call record, the messages table and the gateway
RECURSIVE run_tool_calls(_, _, _, _)
run_tool_calls(c, r, msgs, gw) ==
    IF r.todo = <<>>
    THEN [call |-> call_ended(r, "replied"), messages |-> msgs, gateway |-> gw]
    ELSE LET call == Head(r.todo)
             rest == [r EXCEPT !.todo = Tail(r.todo)]
             ran == [rest EXCEPT !.executed = Append(r.executed, call.index)]
             config == get_instance_config(r.instance_id)
             target == IF config.redirect_phone # "" THEN config.redirect_phone
                       ELSE REDIRECT_PHONE
         IN  IF ~call.valid
             THEN \* json.loads raises
                  [call |-> call_ended(r, "exception"), messages |-> msgs, gateway |-> gw]
             ELSE IF call.name \in {"send_text", "send_menu"}
             THEN IF call.text # <<>>
                  THEN [call |-> [ran EXCEPT !.pc = "sending", !.current = call],
                        messages |-> msgs,
                        gateway |-> gateway_after_send(gw, c, r.number,
                                                       text_to_send(call), call.name)]
                  ELSE run_tool_calls(c, ran, msgs, gw)
             ELSE IF call.name = "handoff"
             THEN IF target # ""
                  THEN [call |-> [ran EXCEPT !.pc = "sending", !.current = call],
                        messages |-> msgs,
                        gateway |-> gateway_after_send(gw, c, target,
                                                       <<"lead">> \o r.number, "handoff")]
                  ELSE run_tool_calls(c, ran,
                           save_message(msgs, r.instance_id, r.number, <<"[handoff]">>, "out"),
                           gw)
             ELSE \* unknown function: logged
                  run_tool_calls(c, ran, msgs, gw)

\* process_message from its first line to the first suspension
process_message_begin(c) ==
    /\ calls[c].pc = "created"
    /\ LET r == calls[c]
           config == get_instance_config(r.instance_id)
           held == [r EXCEPT !.acquired = TRUE]
       IN  IF processing_lock[r.number]
           THEN \* "Ja processando": return from the first try
                /\ calls' = [calls EXCEPT ![c] = call_ended(r, "rejected")]
                /\ processing_lock' = lock_after_rejection(processing_lock, r.number)
                /\ UNCHANGED ai_memory
           ELSE IF gate(config) # "pass"
           THEN \* lock taken, gate closed, lock released by the finally
                /\ calls' = [calls EXCEPT ![c] = call_ended(held, gate(config))]
                /\ processing_lock' =
                       lock_after_step(processing_lock, call_ended(held, gate(config)))
                /\ UNCHANGED ai_memory
           ELSE /\ processing_lock' =
                       lock_after_step(processing_lock, [held EXCEPT !.pc = "sleep_commit"])
                /\ ai_memory' = save_to_ai_memory(ai_memory, r.instance_id, "user",
                                                  r.text, r.number, "")
                /\ calls' = [calls EXCEPT ![c] = [held EXCEPT !.pc = "sleep_commit"]]
    /\ UNCHANGED <<now, pending_messages, timers, arrivals, messages, gateway>>

\* get_history: role and content of the newest MAX_HISTORY rows of the
\* instance, oldest first (the query has no condition on the number)
get_history(mem, number, instance_id) ==
    LET rows == last_n(SelectSeq(mem, LAMBDA m : m.instance_id = instance_id),
                       MAX_HISTORY)
    IN  [k \in DOMAIN rows |-> [role |-> rows[k].role, content |-> rows[k].content]]

\* asyncio.sleep(0.1) returns: get_history, then the model is called
process_message_history(c) ==
    /\ calls[c].pc = "sleep_commit"
    /\ calls' = [calls EXCEPT ![c].pc = "llm",
                              ![c].history = get_history(ai_memory, calls[c].number,
                                                         calls[c].instance_id)]
    /\ UNCHANGED <<now, pending_messages, timers, arrivals, processing_lock,
                   ai_memory, messages, gateway>>

\* call_openai returns: None, or the content and tool_calls of the model
call_openai_returns(c, response) ==
    /\ calls[c].pc = "llm"
    /\ LET r == calls[c]
           msg == strip(response.content)
       IN  IF ~response.ok
           THEN /\ calls' = [calls EXCEPT ![c] = call_ended(r, "llm_failed")]
                /\ processing_lock' =
                       lock_after_step(processing_lock, call_ended(r, "llm_failed"))
                /\ UNCHANGED <<messages, gateway>>
           ELSE IF response.tool_calls # <<>>
           THEN LET out == run_tool_calls(c,
                               [r EXCEPT !.tool_calls = response.tool_calls,
                                         !.todo = ordered_calls(response.tool_calls)],
                               messages, gateway)
                IN  /\ calls' = [calls EXCEPT ![c] = out.call]
                    /\ messages' = out.messages
                    /\ gateway' = out.gateway
                    /\ processing_lock' = lock_after_step(processing_lock, out.call)
           ELSE IF msg # <<>>
           THEN /\ calls' = [calls EXCEPT ![c] =
                       [r EXCEPT !.pc = "sending",
                                 !.current = [index |-> 0, type |-> "content",
                                              name |-> "direct_response",
                                              valid |-> TRUE, text |-> msg]]]
                /\ gateway' = gateway_after_send(gateway, c, r.number, msg,
                                                 "direct_response")
                /\ UNCHANGED <<messages, processing_lock>>
           ELSE /\ calls' = [calls EXCEPT ![c] = call_ended(r, "replied")]
                /\ processing_lock' =
                       lock_after_step(processing_lock, call_ended(r, "replied"))
                /\ UNCHANGED <<messages, gateway>>
    /\ UNCHANGED <<now, pending_messages, timers, arrivals, ai_memory>>

\* send_whatsapp_text returns (its result is not looked at): the message and
\* the memory row are saved, then the call sleeps, goes on or ends
send_whatsapp_text_returns(c) ==
    /\ calls[c].pc = "sending"
    /\ LET r == calls[c]
           call == r.current
           saved == save_message(messages, r.instance_id, r.number,
                                 IF call.name = "handoff" THEN <<"[handoff]">>
                                 ELSE call.text, "out")
       IN  IF call.name = "handoff"
           THEN LET out == run_tool_calls(c, [r EXCEPT !.current = NoToolCall],
                                          saved, gateway)
                IN  /\ calls' = [calls EXCEPT ![c] = out.call]
                    /\ messages' = out.messages
                    /\ gateway' = out.gateway
                    /\ processing_lock' = lock_after_step(processing_lock, out.call)
                    /\ UNCHANGED ai_memory
           ELSE /\ messages' = saved
                /\ ai_memory' = save_to_ai_memory(ai_memory, r.instance_id, "assistant",
                                                  text_to_send(call), r.number, call.name)
                /\ IF call.name = "direct_response"
                   THEN /\ calls' = [calls EXCEPT ![c] = call_ended(r, "replied")]
                        /\ processing_lock' =
                               lock_after_step(processing_lock, call_ended(r, "replied"))
                   ELSE /\ calls' = [calls EXCEPT ![c] =
                               [r EXCEPT !.pc = "tool_sleep", !.current = NoToolCall]]
                        /\ UNCHANGED processing_lock
                /\ UNCHANGED gateway
    /\ UNCHANGED <<now, pending_messages, timers, arrivals>>

\* asyncio.sleep(0.5) after a send_text or send_menu returns
tool_sleep_returns(c) ==
    /\ calls[c].pc = "tool_sleep"
    /\ LET out == run_tool_calls(c, calls[c], messages, gateway)
       IN  /\ calls' = [calls EXCEPT ![c] = out.call]
           /\ messages' = out.messages
           /\ gateway' = out.gateway
           /\ processing_lock' = lock_after_step(processing_lock, out.call)
    /\ UNCHANGED <<now, pending_messages, timers, arrivals, ai_memory>>

\* a flush of the debounce buffer creates the task of a process_message call
create_task_process_message(instance_id, number, text) ==
    /\ Len(calls) < MaxCalls
    /\ calls' = calls_after_create_task(calls, instance_id, number, text)
    /\ UNCHANGED <<now, pending_messages, timers, arrivals, processing_lock,
                   ai_memory, messages, gateway>>

ToolCall(index, type, name, valid, text) ==
    [index |-> index, type |-> type, name |-> name, valid |-> valid, text |-> text]

\* what call_openai returns in the model
Responses ==
    { [ok |-> FALSE, content |-> <<>>, tool_calls |-> <<>>],
      [ok |-> TRUE, content |-> <<" ", "o", "l", "a">>, tool_calls |-> <<>>],
      [ok |-> TRUE, content |-> <<" ">>, tool_calls |-> <<>>],
      [ok |-> TRUE, content |-> <<>>, tool_calls |->
          <<ToolCall(1, "function", "handoff", TRUE, <<>>),
            ToolCall(2, "function", "send_text", TRUE, <<"o", "k">>)>>],
      [ok |-> TRUE, content |-> <<>>, tool_calls |->
          <<ToolCall(1, "function", "handoff", TRUE, <<>>),
            ToolCall(2, "other", "", TRUE, <<>>),
            ToolCall(3, "function", "send_menu", TRUE, <<"q">>),
            ToolCall(4, "function", "send_text", TRUE, <<>>),
            ToolCall(5, "function", "send_text", TRUE, <<"o", "k">>)>>],
      [ok |-> TRUE, content |-> <<>>, tool_calls |->
          <<ToolCall(1, "function", "handoff", TRUE, <<>>),
            ToolCall(2, "function", "lookup", TRUE, <<>>),
            ToolCall(3, "function", "send_text", FALSE, <<>>)>>] }

(***************************************************************************)
(* Progress streams: get_recent_events, subscribe, unsubscribe and         *)
(* stream_progress (app/services/loop.py)                                  *)
(***************************************************************************)
\* the number of events a stream replays, scaled down to the bound of the model
recent_events_limit ==
    IF RECENT_EVENTS_LIMIT < MaxReplay THEN RECENT_EVENTS_LIMIT ELSE MaxReplay

\* get_recent_events with no limit
get_all_events(events, i, limit) ==
    SelectSeq(events, LAMBDA e : e.instance_id = i)

\* get_recent_events: the newest `limit` rows of the instance, oldest first
get_recent_events(events, i, limit) ==
    last_n(SelectSeq(events, LAMBDA e : e.instance_id = i), limit)

\* subscribe: a new empty queue at the end of the instance's list
subscribe(ls, i) == [ls EXCEPT ![i] = Append(@, <<>>)]

\* unsubscribe: the queue at position slot leaves the instance's list
unsubscribe(ls, i, slot) ==
    [ls EXCEPT ![i] = [k \in 1..(Len(@) - 1) |-> IF k < slot THEN @[k] ELSE @[k + 1]]]

\* stream_progress up to its first yield: the history is read and the queue
\* subscribed without a suspension in between
stream_open(i) ==
    /\ Len(streams) < MaxStreams
    /\ streams' = Append(streams,
           [instance_id |-> i, pc |-> "open",
            history |-> get_recent_events(loop_events, i, recent_events_limit),
            slot |-> Len(listeners[i]) + 1,
            received |-> <<>>,
            logged_at_open |-> Len(SelectSeq(loop_events, LAMBDA e : e.instance_id = i))])
    /\ listeners' = subscribe(listeners, i)
    /\ UNCHANGED <<instances, loop_settings, loop_queue, loop_totals, loop_events,
                   next_queue_id, tasks, stop_flags, runs, wall, reply,
                   record_event_fails>>

\* the client takes the next event: one of the history, then queue.get()
stream_next(s) ==
    /\ streams[s].pc = "open"
    /\ LET r == streams[s]
           q == listeners[r.instance_id][r.slot]
       IN  IF r.history # <<>>
           THEN /\ streams' = [streams EXCEPT ![s] =
                       [r EXCEPT !.history = Tail(r.history),
                                 !.received = Append(r.received, Head(r.history))]]
                /\ UNCHANGED listeners
           ELSE /\ q # <<>>
                /\ streams' = [streams EXCEPT ![s].received = Append(r.received, Head(q))]
                /\ listeners' = [listeners EXCEPT ![r.instance_id][r.slot] = Tail(q)]
    /\ UNCHANGED <<instances, loop_settings, loop_queue, loop_totals, loop_events,
                   next_queue_id, tasks, stop_flags, runs, wall, reply,
                   record_event_fails>>

\* the client goes away: the finally of stream_progress unsubscribes
stream_close(s) ==
    /\ streams[s].pc = "open"
    /\ listeners' = unsubscribe(listeners, streams[s].instance_id, streams[s].slot)
    /\ streams' = [k \in DOMAIN streams |->
           IF k = s THEN [streams[k] EXCEPT !.pc = "closed", !.slot = 0]
           ELSE IF /\ streams[k].pc = "open"
                   /\ streams[k].instance_id = streams[s].instance_id
                   /\ streams[k].slot > streams[s].slot
                THEN [streams[k] EXCEPT !.slot = @ - 1]
                ELSE streams[k]]
    /\ UNCHANGED <<instances, loop_settings, loop_queue, loop_totals, loop_events,
                   next_queue_id, tasks, stop_flags, runs, wall, reply,
                   record_event_fails>>

\* the process restarts: every task dies where it stands, a new LoopManager
\* starts with empty tables, the database keeps what it holds
restart ==
    /\ \E t \in DOMAIN runs : ~task_done(t)
    /\ runs' = [t \in DOMAIN runs |->
                   IF task_done(t) THEN runs[t] ELSE [runs[t] EXCEPT !.pc = "killed"]]
    /\ tasks' = [i \in InstIds |-> NoTask]
    /\ stop_flags' = [i \in InstIds |-> NoTask]
    /\ listeners' = [i \in InstIds |-> <<>>]
    /\ streams' = [s \in DOMAIN streams |-> [streams[s] EXCEPT !.pc = "closed", !.slot = 0]]
    /\ UNCHANGED <<instances, loop_settings, loop_queue, loop_totals, loop_events,
                   next_queue_id, wall, reply, record_event_fails>>

\* the INSERT of _record_event starts or stops raising (the except of
\* _publish is the only place that sees it)
record_event_fault ==
    /\ record_event_fails' = ~record_event_fails
    /\ UNCHANGED <<loopVars, streams>>

(***************************************************************************)
(* Specification of the LoopManager                                        *)
(***************************************************************************)
\* an instances row: has_credentials stands for uazapi_host and uazapi_token
HookRow(cred, phone_number, created_at, status, admin_status, prompt, redirect_phone) ==
    [has_credentials |-> cred, phone_number |-> phone_number,
     created_at |-> created_at, status |-> status, admin_status |-> admin_status,
     prompt |-> prompt, redirect_phone |-> redirect_phone]

\* a row with the column defaults of pg.py: status 'disconnected',
\* admin_status 'pending_config', no prompt, no redirect_phone
InstanceRow(cred) == HookRow(cred, "p1", 1, "disconnected", "pending_config", "", "")

SettingsRows ==
    {[daily_limit |-> l, window_start |-> w[1], window_end |-> w[2],
      loop_status |-> "idle", last_run_at |-> NullTime] :
        l \in 1..MaxLimit, w \in Windows}

LoopInit ==
    /\ \E cred \in BOOLEAN : instances = [i \in {"i1"} |-> InstanceRow(cred)]
    /\ \/ loop_settings = <<>>
       \/ \E row \in SettingsRows : loop_settings = [i \in {"i1"} |-> row]
    /\ loop_queue = <<>>
    /\ loop_totals = <<>>
    /\ loop_events = <<>>
    /\ next_queue_id = 1
    /\ tasks = [i \in InstIds |-> NoTask]
    /\ stop_flags = [i \in InstIds |-> NoTask]
    /\ listeners = [i \in InstIds |-> <<>>]
    /\ runs = <<>>
    /\ wall = 0
    /\ reply = NoReply
    /\ streams = <<>>
    /\ record_event_fails = FALSE
    /\ AdminIdle
    /\ HookIdle

LoopNext ==
    \/ \E i \in InstIds : start_loop(i) /\ UNCHANGED <<adminVars, hookVars, streamVars>>
    \/ \E i \in InstIds : stop_loop(i) /\ UNCHANGED <<adminVars, hookVars, streamVars>>
    \/ \E t \in DOMAIN runs : run_loop_enter(t) /\ UNCHANGED <<adminVars, hookVars, streamVars>>
    \/ \E t \in DOMAIN runs, ok \in BOOLEAN : run_loop_sent(t, ok) /\ UNCHANGED <<adminVars, hookVars, streamVars>>
    \/ \E t \in DOMAIN runs : run_loop_wake(t) /\ UNCHANGED <<adminVars, hookVars, streamVars>>
    \/ \E i \in InstIds, phone \in RawPhones : add_contact(i, phone) /\ UNCHANGED <<adminVars, hookVars, streamVars>>
    \/ Tick /\ UNCHANGED <<adminVars, hookVars, streamVars>>

SpecLoop == LoopInit /\ [][LoopNext]_vars

(***************************************************************************)
(* Specification of the progress streams: runs of i1 over a queue of two   *)
(* contacts (as two add_contact calls leave it), watched by streams        *)
(***************************************************************************)
StreamInit ==
    /\ instances = [i \in {"i1"} |-> InstanceRow(TRUE)]
    /\ \E l \in 1..MaxLimit :
          loop_settings = [i \in {"i1"} |->
              [daily_limit |-> l, window_start |-> 0, window_end |-> DayLen - 1,
               loop_status |-> "idle", last_run_at |-> NullTime]]
    /\ loop_queue = <<[id |-> 1, instance_id |-> "i1", phone |-> <<"1">>],
                      [id |-> 2, instance_id |-> "i1", phone |-> <<"2">>]>>
    /\ loop_totals = <<>>
    /\ loop_events = <<>>
    /\ next_queue_id = 3
    /\ tasks = [i \in InstIds |-> NoTask]
    /\ stop_flags = [i \in InstIds |-> NoTask]
    /\ listeners = [i \in InstIds |-> <<>>]
    /\ runs = <<>>
    /\ wall = 0
    /\ reply = NoReply
    /\ streams = <<>>
    /\ record_event_fails = FALSE
    /\ AdminIdle
    /\ HookIdle

StreamNext ==
    \/ \E i \in InstIds : start_loop(i) /\ UNCHANGED <<adminVars, hookVars, streamVars>>
    \/ \E t \in DOMAIN runs : run_loop_enter(t) /\ UNCHANGED <<adminVars, hookVars, streamVars>>
    \/ \E t \in DOMAIN runs, ok \in BOOLEAN :
          run_loop_sent(t, ok) /\ UNCHANGED <<adminVars, hookVars, streamVars>>
    \/ \E t \in DOMAIN runs : run_loop_wake(t) /\ UNCHANGED <<adminVars, hookVars, streamVars>>
    \/ \E i \in InstIds : stream_open(i) /\ UNCHANGED <<adminVars, hookVars>>
    \/ \E s \in DOMAIN streams : stream_next(s) /\ UNCHANGED <<adminVars, hookVars>>
    \/ \E s \in DOMAIN streams : stream_close(s) /\ UNCHANGED <<adminVars, hookVars>>

SpecStream == StreamInit /\ [][StreamNext]_vars

\* one run, with an event log whose INSERT may fail
FanoutNext ==
    \/ \E i \in InstIds :
          runs = <<>> /\ start_loop(i) /\ UNCHANGED <<adminVars, hookVars, streamVars>>
    \/ \E t \in DOMAIN runs : run_loop_enter(t) /\ UNCHANGED <<adminVars, hookVars, streamVars>>
    \/ \E t \in DOMAIN runs, ok \in BOOLEAN :
          run_loop_sent(t, ok) /\ UNCHANGED <<adminVars, hookVars, streamVars>>
    \/ \E t \in DOMAIN runs : run_loop_wake(t) /\ UNCHANGED <<adminVars, hookVars, streamVars>>
    \/ \E i \in InstIds : stream_open(i) /\ UNCHANGED <<adminVars, hookVars>>
    \/ \E s \in DOMAIN streams : stream_next(s) /\ UNCHANGED <<adminVars, hookVars>>
    \/ \E s \in DOMAIN streams : stream_close(s) /\ UNCHANGED <<adminVars, hookVars>>
    \/ record_event_fault /\ UNCHANGED <<adminVars, hookVars>>

SpecFanout == StreamInit /\ [][FanoutNext]_vars

\* runs and streams of a process that may restart
RestartNext ==
    \/ \E i \in InstIds : start_loop(i) /\ UNCHANGED <<adminVars, hookVars, streamVars>>
    \/ \E i \in InstIds : stop_loop(i) /\ UNCHANGED <<adminVars, hookVars, streamVars>>
    \/ \E t \in DOMAIN runs : run_loop_enter(t) /\ UNCHANGED <<adminVars, hookVars, streamVars>>
    \/ \E t \in DOMAIN runs, ok \in BOOLEAN :
          run_loop_sent(t, ok) /\ UNCHANGED <<adminVars, hookVars, streamVars>>
    \/ \E t \in DOMAIN runs : run_loop_wake(t) /\ UNCHANGED <<adminVars, hookVars, streamVars>>
    \/ \E i \in InstIds : stream_open(i) /\ UNCHANGED <<adminVars, hookVars>>
    \/ restart /\ UNCHANGED <<adminVars, hookVars>>

SpecRestart == StreamInit /\ [][RestartNext]_vars

(***************************************************************************)
(* Specification of the admin automation                                   *)
(***************************************************************************)
LoopIdle ==
    /\ loop_settings = <<>>
    /\ loop_queue = <<>>
    /\ loop_totals = <<>>
    /\ loop_events = <<>>
    /\ next_queue_id = 1
    /\ tasks = [i \in InstIds |-> NoTask]
    /\ stop_flags = [i \in InstIds |-> NoTask]
    /\ listeners = [i \in InstIds |-> <<>>]
    /\ runs = <<>>
    /\ wall = 0
    /\ reply = NoReply
    /\ streams = <<>>
    /\ record_event_fails = FALSE

AdminInit ==
    /\ instances = [i \in {"i1"} |-> InstanceRow(TRUE)]
    /\ LoopIdle
    /\ running_automations = [i \in InstIds |-> NoEntry]
    /\ autos = <<>>
    /\ \E l \in 1..MaxLimit, ar \in BOOLEAN :
          auto_settings = [i \in {"i1"} |-> [daily_limit |-> l, auto_run |-> ar]]
    /\ auto_queue \in AutoQueues
    /\ auto_totals = {}
    /\ auto_sends = <<>>
    /\ day_phase \in {"early", "open"}
    /\ ultima_execucao = FALSE
    /\ admin_reply = NoReply
    /\ HookIdle

AdminNext ==
    \/ \E i \in InstIds : run_automation(i) /\ UNCHANGED <<loopVars, hookVars, streamVars>>
    \/ \E i \in InstIds : stop_automation(i) /\ UNCHANGED <<loopVars, hookVars, streamVars>>
    \/ automation_scheduler /\ UNCHANGED <<loopVars, hookVars, streamVars>>
    \/ \E a \in DOMAIN autos : automation_begin(a) /\ UNCHANGED <<loopVars, hookVars, streamVars>>
    \/ \E a \in DOMAIN autos : automation_start_reached(a) /\ UNCHANGED <<loopVars, hookVars, streamVars>>
    \/ \E a \in DOMAIN autos, success \in BOOLEAN : automation_sent(a, success) /\ UNCHANGED <<loopVars, hookVars, streamVars>>
    \/ \E a \in DOMAIN autos : automation_wake(a) /\ UNCHANGED <<loopVars, hookVars, streamVars>>
    \/ next_phase /\ UNCHANGED <<loopVars, hookVars, streamVars>>

SpecAdmin == AdminInit /\ [][AdminNext]_vars

\* C3, as claimed: two _run_automation_loop executions of one instance are
\* never active (registered and not yet ended) at the same time, and a
\* run-automation request is accepted only when none is active.
C3_NoDuplicateAutomation ==
    /\ \A i \in InstIds : Cardinality(active_autos(i)) <= 1
    /\ (admin_reply.op = "run" /\ admin_reply.status = "ok") => ~admin_reply.fact

(***************************************************************************)
(* Specification of the webhook debounce buffer                            *)
(***************************************************************************)
DebounceInit ==
    /\ \E phone2 \in {"p1", "p2"} :
          instances = [i \in {"i1", "i2"} |->
              IF i = "i1"
              THEN HookRow(TRUE, "p1", 1, "connected", "active", "prompt", "")
              ELSE HookRow(TRUE, phone2, 2, "connected", "active", "prompt", "")]
    /\ LoopIdle
    /\ AdminIdle
    /\ HookIdle

DebounceNext ==
    \/ \E owner \in Owners, raw_number \in RawNumbers, from_me \in BOOLEAN,
          raw_text \in RawTexts :
          whatsapp_webhook(owner, raw_number, from_me, raw_text)
          /\ UNCHANGED <<loopVars, adminVars, streamVars>>
    \/ \E t \in DOMAIN timers : process_buffered(t) /\ UNCHANGED <<loopVars, adminVars, streamVars>>
    \/ tick /\ UNCHANGED <<loopVars, adminVars, streamVars>>

SpecDebounce == DebounceInit /\ [][DebounceNext]_vars

(***************************************************************************)
(* Specification of the process_message pipeline                           *)
(***************************************************************************)
PipelineInit ==
    /\ \E status \in {"connected", "disconnected"},
          admin_status \in {"pending_config", "configured", "active"},
          prompt \in {"", "prompt"}, redirect_phone \in {"", "r"} :
          instances = [i \in {"i1"} |->
              HookRow(TRUE, "p1", 1, status, admin_status, prompt, redirect_phone)]
    /\ LoopIdle
    /\ AdminIdle
    /\ HookIdle

PipelineNext ==
    \/ \E instance_id \in InstIds, number \in Numbers :
          create_task_process_message(instance_id, number, <<"o", "i">>)
          /\ UNCHANGED <<loopVars, adminVars, streamVars>>
    \/ \E c \in DOMAIN calls : process_message_begin(c) /\ UNCHANGED <<loopVars, adminVars, streamVars>>
    \/ \E c \in DOMAIN calls : process_message_history(c) /\ UNCHANGED <<loopVars, adminVars, streamVars>>
    \/ \E c \in DOMAIN calls, response \in Responses :
          call_openai_returns(c, response) /\ UNCHANGED <<loopVars, adminVars, streamVars>>
    \/ \E c \in DOMAIN calls : send_whatsapp_text_returns(c) /\ UNCHANGED <<loopVars, adminVars, streamVars>>
    \/ \E c \in DOMAIN calls : tool_sleep_returns(c) /\ UNCHANGED <<loopVars, adminVars, streamVars>>

SpecPipeline == PipelineInit /\ [][PipelineNext]_vars

(***************************************************************************)
(* Properties of the debounce buffer                                       *)
(***************************************************************************)
\* the accepted fragments of a key / of a flush, as indices in arrival order
fragments_of_key(key) == {j \in DOMAIN arrivals : arrivals[j].key = key}
fragments_of_call(c) == {j \in DOMAIN arrivals : arrivals[j].call = c}

\* the fragment that arrived just before fragment j for the same key (0: none)
previous_fragment(j) ==
    LET before == {k \in fragments_of_key(arrivals[j].key) : k < j}
    IN  IF before = {} THEN 0 ELSE CHOOSE k \in before : \A m \in before : m <= k

\* the texts of a set of fragments joined by single spaces in arrival order
RECURSIVE SpaceJoined(_)
SpaceJoined(js) ==
    IF js = {} THEN <<>>
    ELSE LET j == CHOOSE k \in js : \A m \in js : k <= m
         IN  IF js = {j} THEN arrivals[j].text
             ELSE arrivals[j].text \o <<" ">> \o SpaceJoined(js \ {j})

\* C1: fragments of one key that arrive less than BUFFER_SECONDS after the
\* previous one belong to one burst.  A burst is flushed exactly once: two
\* fragments of a burst are never split over two flushes, every flush is one
\* process_message call whose text is the fragments of the burst joined by
\* single spaces in arrival order, the flush comes no earlier than
\* BUFFER_SECONDS after the last fragment, and while a fragment waits its key
\* holds a live timer due BUFFER_SECONDS after the last fragment.
C1_DebounceCoalescing ==
    /\ \A j \in DOMAIN arrivals :
          LET k == previous_fragment(j) IN
          (k # 0 /\ arrivals[j].at - arrivals[k].at < BUFFER_SECONDS)
              => arrivals[j].call = arrivals[k].call
    /\ \A c \in DOMAIN calls :
          LET js == fragments_of_call(c) IN
          /\ js # {}
          /\ \A j \in js : arrivals[j].key = <<calls[c].instance_id, calls[c].number>>
          /\ calls[c].text = SpaceJoined(js)
          /\ \A j \in js : calls[c].created_at >= arrivals[j].at + BUFFER_SECONDS
    /\ \A j \in DOMAIN arrivals :
          arrivals[j].call = 0 =>
              LET last == CHOOSE k \in fragments_of_key(arrivals[j].key) :
                              \A m \in fragments_of_key(arrivals[j].key) : m <= k
              IN  /\ now <= arrivals[last].at + BUFFER_SECONDS
                  /\ \E t \in DOMAIN timers :
                        /\ timers[t].key = arrivals[j].key
                        /\ timers[t].state = "sleeping"
                        /\ timers[t].due = arrivals[last].at + BUFFER_SECONDS

\* a burst of three fragments, each after the previous one and less than
\* BUFFER_SECONDS later, has been flushed as one call
C1_Witness ==
    \E c \in DOMAIN calls :
        /\ Cardinality(fragments_of_call(c)) = 3
        /\ \A j \in fragments_of_call(c) :
              previous_fragment(j) # 0 =>
                 /\ arrivals[j].at > arrivals[previous_fragment(j)].at
                 /\ arrivals[j].at - arrivals[previous_fragment(j)].at < BUFFER_SECONDS
        /\ calls[c].text = <<"o", "i", " ", "x", "?", " ", "o", "i">>

(***************************************************************************)
(* Properties of process_message                                           *)
(***************************************************************************)
\* the call has passed the lock acquisition and has not returned
in_flight(c) == calls[c].acquired /\ calls[c].pc # "done"

\* gateway requests of call c, in the order they were made
sends_of(c) == SelectSeq(gateway, LAMBDA g : g.call = c)

\* C4: at most one process_message call per sender is in flight between the
\* lock acquisition and its release; the lock of a sender stays set as long as
\* its holder is in flight, whatever calls are rejected meanwhile, and a
\* rejected call never passed the acquisition.
C4_MutualExclusion ==
    /\ \A c1, c2 \in DOMAIN calls :
          (c1 # c2 /\ in_flight(c1) /\ in_flight(c2))
              => calls[c1].number # calls[c2].number
    /\ \A c \in DOMAIN calls : in_flight(c) => processing_lock[calls[c].number]
    /\ \A c \in DOMAIN calls : calls[c].outcome = "rejected" => ~calls[c].acquired

\* a call was rejected while the holder of the lock is still in flight
C4_Witness ==
    \E c1, c2 \in DOMAIN calls :
        /\ in_flight(c1)
        /\ calls[c2].outcome = "rejected"
        /\ calls[c2].number = calls[c1].number
        /\ processing_lock[calls[c1].number]

\* C5: every request process_message hands to the gateway (send_text,
\* send_menu, direct reply, handoff notification) comes from a call whose
\* instance exists, has a prompt, has admin_status configured or active and
\* has status connected.
C5_GatingCorrectness ==
    \A g \in DOMAIN gateway :
        LET i == calls[gateway[g].call].instance_id IN
        /\ i \in DOMAIN instances
        /\ instances[i].prompt # ""
        /\ instances[i].admin_status \in {"configured", "active"}
        /\ instances[i].status = "connected"

\* calls have ended at closed gates without any request to the gateway: one
\* for an instance that does not exist, one for an instance that is not
\* configured or not connected
C5_Witness ==
    /\ \E c \in DOMAIN calls :
          /\ calls[c].outcome \in {"not_configured", "disconnected"}
          /\ calls[c].acquired
    /\ \E c \in DOMAIN calls : calls[c].outcome = "no_config"
    /\ gateway = <<>>

\* C6: within one call the tool calls run with every non-handoff call, in the
\* order of the model response, before any handoff call: no handoff is run
\* before a non-handoff call, a handoff is run only after all the function
\* calls of the response that are not handoffs, and no handoff notification
\* reaches the gateway before a send_text or send_menu of the same call.
C6_ToolCallOrdering ==
    \A c \in DOMAIN calls :
        LET r == calls[c]
            name(k) == r.tool_calls[r.executed[k]].name
            others == {k \in DOMAIN r.tool_calls :
                          /\ r.tool_calls[k].type = "function"
                          /\ r.tool_calls[k].name # "handoff"}
            ran == {r.executed[k] : k \in DOMAIN r.executed}
        IN  /\ \A a, b \in DOMAIN r.executed :
                  (a < b /\ name(b) # "handoff")
                      => (name(a) # "handoff" /\ r.executed[a] < r.executed[b])
            /\ (\E k \in DOMAIN r.executed : name(k) = "handoff") => others \subseteq ran
            /\ \A a, b \in DOMAIN sends_of(c) :
                  (a < b /\ sends_of(c)[a].kind = "handoff")
                      => sends_of(c)[b].kind = "handoff"

\* the model answered handoff first and send_text second; the text went to
\* the gateway first and the handoff notification after it
C6_Witness ==
    \E c \in DOMAIN calls :
        /\ calls[c].tool_calls # <<>>
        /\ calls[c].tool_calls[1].name = "handoff"
        /\ calls[c].executed = <<2, 1>>
        /\ Len(sends_of(c)) = 2
        /\ sends_of(c)[1].kind = "send_text"
        /\ sends_of(c)[2].kind = "handoff"

\* C10: a lock is set only while a call of that sender is in flight, so every
\* call that acquired it has released it when it ended (gate closed, model
\* failure, reply, exception in a tool call); a call ends in the "done"
\* position whatever happened; and a call is rejected only while another call
\* of the same sender is in flight.
C10_GuaranteedRelease ==
    /\ [](\A n \in Numbers :
             processing_lock[n] =>
                 \E c \in DOMAIN calls : in_flight(c) /\ calls[c].number = n)
    /\ [][\A c \in DOMAIN calls :
             (calls[c].pc = "created" /\ calls'[c].outcome = "rejected")
                 => \E c2 \in DOMAIN calls :
                       c2 # c /\ in_flight(c2) /\ calls[c2].number = calls[c].number]_vars

\* a call ended by an exception of a tool call, and a later call of the same
\* sender acquired the lock
C10_Witness ==
    \E c1, c2 \in DOMAIN calls :
        /\ c1 < c2
        /\ calls[c1].outcome = "exception"
        /\ calls[c2].number = calls[c1].number
        /\ calls[c2].acquired
        /\ calls[c2].outcome # "rejected"

(***************************************************************************)
(* Properties of the LoopManager                                           *)
(***************************************************************************)
task_events(t) == SelectSeq(loop_events, LAMBDA e : e.task = t)

item_events(i, phone) ==
    SelectSeq(loop_events,
              LAMBDA e : e.instance_id = i /\ e.event_type = "item" /\ e.phone = phone)

\* C2: at most one unfinished _run_loop task exists per instance; start_loop
\* answers 409 exactly when a task of the instance is still unfinished (and
\* then creates none), so a start after the previous run ended is accepted.
C2_AtMostOneRunning ==
    /\ \A i \in InstIds : Cardinality(live_tasks(i)) <= 1
    /\ reply.op = "start_loop" => (reply.status = "409" <=> reply.fact)
    /\ reply.op = "start_loop" => (reply.status = "started" <=> ~reply.fact)

\* a second run of i1 was accepted after the first ended, and a further
\* start_loop met the conflict while the second run was live
C2_Witness ==
    /\ Len(runs) = 2
    /\ runs[1].instance_id = "i1" /\ runs[2].instance_id = "i1"
    /\ runs[1].pc = "done" /\ runs[2].pc = "sending"
    /\ reply = [op |-> "start_loop", status |-> "409", fact |-> TRUE]

\* C7: once _run_loop has processed a contact (send ok or failed) its queue
\* row is gone and exactly one totals row exists for (instance, phone); no
\* (instance, phone) ever has two totals rows.
C7_QueueConsumption ==
    /\ \A t \in DOMAIN runs :
          runs[t].pc = "sleep_delay" =>
             /\ \A k \in DOMAIN loop_queue : loop_queue[k].id # runs[t].contact.id
             /\ Cardinality(totals_index(loop_totals, runs[t].instance_id,
                                         runs[t].contact.phone)) = 1
    /\ \A k1, k2 \in DOMAIN loop_totals :
          (/\ loop_totals[k1].instance_id = loop_totals[k2].instance_id
           /\ loop_totals[k1].phone = loop_totals[k2].phone) => k1 = k2

\* the same phone has just been processed for the second time
C7_Witness ==
    \E t \in DOMAIN runs :
        /\ runs[t].pc = "sleep_delay"
        /\ Len(item_events(runs[t].instance_id, runs[t].contact.phone)) = 2

\* C8: a run that finds the day's sent count at or above daily_limit when it
\* starts attempts no send, so consumes no queue row, and its only events
\* are start and end(daily_quota).
C8_DailyQuotaAtStart ==
    \A t \in DOMAIN runs :
        runs[t].quota_at_start =>
            /\ runs[t].pc = "done"
            /\ runs[t].attempts = 0
            /\ runs[t].processed = 0
            /\ task_events(t) =
                 <<Event(runs[t].instance_id, "start", "", NoPhone, t),
                   Event(runs[t].instance_id, "end", "daily_quota", NoPhone, t)>>

\* a run started with the quota used up while a contact was waiting
C8_Witness ==
    \E t \in DOMAIN runs :
        /\ runs[t].quota_at_start
        /\ runs[t].sent_today = runs[t].daily_cap
        /\ pending_rows(loop_queue, runs[t].instance_id) # <<>>

\* C9, as claimed: every terminated _run_loop task has left its instance
\* without an entry in the task table and in the stop-flag table, and with
\* loop_status = idle and last_run_at stamped unless a newer run is live.
C9_CleanupOnEveryExit ==
    \A t \in DOMAIN runs :
        task_done(t) =>
            LET i == runs[t].instance_id IN
            /\ tasks[i] # t
            /\ stop_flags[i] # t
            /\ (live_tasks(i) = {} /\ i \in DOMAIN instances) =>
                   /\ i \in DOMAIN loop_settings
                   /\ loop_settings[i].loop_status = "idle"
                   /\ loop_settings[i].last_run_at # NullTime

\* C11, as claimed: stop_loop answers 404 whenever no _run_loop task of the
\* instance is unfinished (never started, finished, or failed before its try
\* block), and answers "stopping" only when one is.
C11_StopLoopCondition ==
    reply.op = "stop_loop" => (reply.status = "stopping" <=> reply.fact)

(***************************************************************************)
(* Properties of the webhook: storage, keys and timers                     *)
(***************************************************************************)
\* the messages row of an accepted fragment
row_of(a) == [instance_id |-> a.key[1], chat_id |-> a.key[2],
              content |-> a.text, from_me |-> FALSE]

inbound_rows == SelectSeq(messages, LAMBDA m : ~m.from_me)

waiting_texts(key) ==
    LET js == SelectSeq([j \in DOMAIN arrivals |-> j],
                        LAMBDA j : arrivals[j].key = key /\ arrivals[j].call = 0)
    IN  [k \in DOMAIN js |-> arrivals[js[k]].text]

\* every flush and every buffer entry is made of fragments of one key
one_key_per_flush ==
    /\ \A j, k \in DOMAIN arrivals :
          (arrivals[j].key # arrivals[k].key /\ arrivals[j].call # 0)
              => arrivals[j].call # arrivals[k].call
    /\ \A key \in DOMAIN pending_messages :
          pending_messages[key].texts = waiting_texts(key)
    /\ \A c \in DOMAIN calls :
          \A j \in DOMAIN arrivals :
              arrivals[j].key # <<calls[c].instance_id, calls[c].number>>
                  => arrivals[j].call # c

\* C13: fragments of two different (instance_id, number) keys never share a
\* flush: a buffer entry holds the waiting fragments of its own key only and
\* a call is made of fragments of one key; and a step that accepts a fragment
\* or flushes a key leaves the timers and the buffer entries of every other
\* key as they were.
C13_DebounceIndependence ==
    /\ []one_key_per_flush
    /\ [][\A key \in {timers[v].key : v \in DOMAIN timers} :
             (\/ /\ Len(arrivals') = Len(arrivals) + 1
                 /\ arrivals'[Len(arrivals')].key # key
              \/ \E t \in DOMAIN timers :
                    /\ timers[t].key # key
                    /\ timers[t].state = "sleeping" /\ timers'[t].state = "done")
             => /\ \A u \in DOMAIN timers : timers[u].key = key => timers'[u] = timers[u]
                /\ \A u \in DOMAIN timers' \ DOMAIN timers : timers'[u].key # key
                /\ key \in DOMAIN pending_messages
                      => /\ key \in DOMAIN pending_messages'
                         /\ pending_messages'[key] = pending_messages[key]
                /\ key \notin DOMAIN pending_messages
                      => key \notin DOMAIN pending_messages']_vars

\* the same number wrote to two instances; the first key got a second
\* fragment (its first timer was cancelled) while the other key waited, and
\* each key was flushed as a call of its own
C13_Witness ==
    \E c1, c2 \in DOMAIN calls :
        /\ calls[c1].number = calls[c2].number
        /\ calls[c1].instance_id # calls[c2].instance_id
        /\ Cardinality(fragments_of_call(c1)) = 2
        /\ Cardinality(fragments_of_call(c2)) = 1
        /\ \E j \in fragments_of_call(c2) :
              \E a, b \in fragments_of_call(c1) : a < j /\ j < b

(***************************************************************************)
(* Properties of _run_loop: order of the checks, stop, failed sends        *)
(***************************************************************************)
events_of_task(events, t) == SelectSeq(events, LAMBDA e : e.task = t)

\* the phones the item events of task t name
phones_of_task(events, t) ==
    {events[k].phone : k \in {n \in DOMAIN events :
                                 events[n].task = t /\ events[n].event_type = "item"}}

\* run t has sent to daily_cap contacts, all with success, starting from a
\* day's count of zero, and no contact of its instance is left in the queue
sent_all_K(t) ==
    /\ runs[t].pc \in {"sleep_delay", "sleep_window"}
    /\ ~runs[t].stop
    /\ runs[t].processed = runs[t].daily_cap
    /\ runs[t].attempts = runs[t].processed
    /\ runs[t].sent_today = runs[t].processed
    /\ Cardinality(phones_of_task(loop_events, t)) = runs[t].daily_cap
    /\ pending_rows(loop_queue, runs[t].instance_id) = <<>>

\* C14: a run with daily_limit = K that started with nothing sent today and
\* has sent to K contacts, all with success, so that no contact is pending,
\* ends at its next pass (once inside the window) with the single end event
\* completed and no daily_quota event; the K contacts are out of the queue
\* and K totals rows of theirs have mensagem_enviada = true.
C14_CompletionBeforeQuota ==
    [][\A t \in DOMAIN runs :
          (sent_all_K(t) /\ runs'[t] # runs[t] /\ ~runs'[t].stop)
              => LET i == runs[t].instance_id
                     es == events_of_task(loop_events', t)
                     phones == phones_of_task(loop_events', t)
                 IN  \/ runs'[t].pc = "sleep_window"
                     \/ /\ runs'[t].pc = "done"
                        /\ runs'[t].ends = 1
                        /\ es[Len(es)] = Event(i, "end", "completed", NoPhone, t)
                        /\ \A k \in DOMAIN es : es[k].detail # "daily_quota"
                        /\ pending_rows(loop_queue', i) = <<>>
                        /\ Cardinality({k \in DOMAIN loop_totals' :
                                           /\ loop_totals'[k].instance_id = i
                                           /\ loop_totals'[k].phone \in phones
                                           /\ loop_totals'[k].mensagem_enviada})
                              = runs[t].daily_cap]_vars

\* a run with daily_limit 2 has sent to two contacts and ended completed
C14_Witness ==
    \E t \in DOMAIN runs :
        /\ runs[t].pc = "done"
        /\ runs[t].daily_cap = 2 /\ runs[t].processed = 2 /\ runs[t].attempts = 2
        /\ runs[t].sent_today = 2
        /\ runs[t].ends = 1
        /\ loop_queue = <<>>
        /\ Cardinality({k \in DOMAIN loop_totals : loop_totals[k].mensagem_enviada}) = 2
        /\ loop_events[Len(loop_events)] =
               Event(runs[t].instance_id, "end", "completed", NoPhone, t)

(***************************************************************************)
(* Properties of the debounce timers                                       *)
(***************************************************************************)
live_timers(key) ==
    {t \in DOMAIN timers : timers[t].key = key /\ timers[t].state = "sleeping"}

\* each key has at most one sleeping timer: the one its buffer entry holds,
\* due BUFFER_SECONDS after the entry's last fragment
single_live_timer ==
    /\ \A t \in DOMAIN timers :
          timers[t].state = "sleeping" =>
             /\ live_timers(timers[t].key) = {t}
             /\ timers[t].key \in DOMAIN pending_messages
             /\ pending_messages[timers[t].key].timer = t
             /\ timers[t].due = pending_messages[timers[t].key].last_update + BUFFER_SECONDS
    /\ \A key \in DOMAIN pending_messages :
          /\ live_timers(key) = {pending_messages[key].timer}
          /\ \E j \in fragments_of_key(key) :
                /\ arrivals[j].at = pending_messages[key].last_update
                /\ \A k \in fragments_of_key(key) : k <= j

\* what a step may do to the timers
timer_step ==
    /\ \A t \in DOMAIN timers :
          /\ timers[t].state = "cancelled" => timers'[t] = timers[t]
          /\ (timers[t].state # "done" /\ timers'[t].state = "done")
                => /\ timers[t].state = "sleeping"
                   /\ now >= pending_messages[timers[t].key].last_update
                                + BUFFER_SECONDS
                   /\ Len(calls') = Len(calls) + 1
    /\ Len(calls') > Len(calls)
          => \E t \in DOMAIN timers :
                timers[t].state = "sleeping" /\ timers'[t].state = "done"
    /\ (/\ Len(arrivals') = Len(arrivals) + 1
        /\ arrivals'[Len(arrivals')].key \in DOMAIN pending_messages)
          => LET key == arrivals'[Len(arrivals')].key
                 old == pending_messages[key].timer
             IN  /\ timers'[old].state = "cancelled"
                 /\ Len(timers') = Len(timers) + 1
                 /\ timers'[Len(timers')] =
                        [key |-> key, due |-> now + BUFFER_SECONDS,
                         state |-> "sleeping"]
                 /\ pending_messages'[key].timer = Len(timers')

\* C15: each buffer key has at most one timer that is not cancelled and not
\* over; a fragment for a buffered key cancels that timer and starts a new
\* one due BUFFER_SECONDS after this fragment; a flush happens only from a
\* sleeping timer, BUFFER_SECONDS or more after the last fragment of the key;
\* and a cancelled timer stays cancelled: it never flushes.
C15_TrailingDebounce == []single_live_timer /\ [][timer_step]_vars

\* a second fragment came some seconds after the first: the first timer was
\* cancelled, the flush came BUFFER_SECONDS after the second fragment, which
\* is later than the first timer was due
C15_Witness ==
    \E c \in DOMAIN calls :
        \E t1, t2 \in DOMAIN timers :
            /\ t1 < t2
            /\ timers[t1].key = <<calls[c].instance_id, calls[c].number>>
            /\ timers[t2].key = timers[t1].key
            /\ timers[t1].state = "cancelled"
            /\ timers[t2].state = "done"
            /\ timers[t1].due < timers[t2].due
            /\ calls[c].created_at = timers[t2].due
            /\ Cardinality(fragments_of_call(c)) = 2

(***************************************************************************)
(* Properties of the conversation memory                                   *)
(***************************************************************************)
\* C16, as claimed: the assistant row a send_menu tool call appends to
\* ai_memory holds the question of that tool call, not the rendered menu.
C16_MenuMemoryIsQuestion ==
    \A m \in DOMAIN ai_memory :
        ai_memory[m].function = "send_menu" =>
            \E c \in DOMAIN calls :
                \E k \in DOMAIN calls[c].tool_calls :
                    /\ calls[c].tool_calls[k].name = "send_menu"
                    /\ calls[c].instance_id = ai_memory[m].instance_id
                    /\ calls[c].number = ai_memory[m].number
                    /\ ai_memory[m].content = calls[c].tool_calls[k].text

\* rows of ai_memory for the conversation of call c with the given role
memory_rows(c, role) ==
    {m \in DOMAIN ai_memory :
        /\ ai_memory[m].instance_id = calls[c].instance_id
        /\ ai_memory[m].number = calls[c].number
        /\ ai_memory[m].role = role}

\* calls of the conversation <<i, n>> that took the lock and passed the gates
processed_calls(i, n) ==
    {c \in DOMAIN calls :
        /\ calls[c].instance_id = i /\ calls[c].number = n
        /\ calls[c].pc # "created"
        /\ calls[c].outcome \notin {"rejected", "no_config", "not_configured",
                                    "disconnected"}}

\* requests to the gateway whose send has returned, made for the conversation
\* <<i, n>> by a send_text, a send_menu or a direct reply
returned_replies(i, n) ==
    {g \in DOMAIN gateway :
        LET c == gateway[g].call IN
        /\ calls[c].instance_id = i /\ calls[c].number = n
        /\ gateway[g].kind # "handoff"
        /\ ~(calls[c].pc = "sending" /\ \A h \in DOMAIN gateway :
                                            gateway[h].call = c => h <= g)}

rows_of(i, n, role) ==
    {m \in DOMAIN ai_memory :
        /\ ai_memory[m].instance_id = i /\ ai_memory[m].number = n
        /\ ai_memory[m].role = role}

dropped_for_good ==
    \A c \in DOMAIN calls :
        calls[c].outcome = "rejected" =>
            /\ calls[c].pc = "done"
            /\ ~calls[c].acquired
            /\ calls[c].tool_calls = <<>> /\ calls[c].executed = <<>>
            /\ sends_of(c) = <<>>

\* the step that rejects a call finds the lock of its sender set and writes
\* nothing; a rejected call never takes another step
rejection_step ==
    \A c \in DOMAIN calls :
        /\ (calls[c].pc = "created" /\ calls'[c].outcome = "rejected")
              => /\ processing_lock[calls[c].number]
                 /\ UNCHANGED <<ai_memory, messages, gateway, processing_lock>>
        /\ (calls[c].pc = "created" /\ calls'[c] # calls[c]
                                     /\ processing_lock[calls[c].number])
              => calls'[c].outcome = "rejected"
        /\ calls[c].outcome = "rejected" => calls'[c] = calls[c]

\* C18: a process_message call that finds the lock of its sender held returns
\* at once: no memory row, no model call, no request to the gateway, the lock
\* untouched; and it is not kept for later: it takes no further step, also
\* after the lock has been released.
C18_DropIfBusy == []dropped_for_good /\ [][rejection_step]_vars

\* a call was rejected, the holder of the lock has ended and released it,
\* and the conversation has the one user row of the holder
C18_Witness ==
    \E c1, c2 \in DOMAIN calls :
        /\ calls[c2].outcome = "rejected"
        /\ calls[c1].acquired /\ calls[c1].pc = "done"
        /\ calls[c1].outcome = "replied"
        /\ calls[c1].number = calls[c2].number
        /\ calls[c1].instance_id = calls[c2].instance_id
        /\ ~processing_lock[calls[c1].number]
        /\ Cardinality(rows_of(calls[c1].instance_id, calls[c1].number, "user")) = 1

\* the last event of the log belongs to task t and is the given one
last_event_is(events, t, type, detail) ==
    /\ events # <<>>
    /\ events[Len(events)] = Event(events[Len(events)].instance_id, type, detail,
                                   NoPhone, t)

\* the steps of a run whose stop flag is set
stopped_run_step ==
    \A t \in DOMAIN runs :
        runs[t].stop =>
            /\ runs'[t].attempts = runs[t].attempts
            /\ runs[t].pc # "sending" => runs'[t].pc # "sending"
            /\ (runs[t].pc = "sending" /\ runs'[t] # runs[t])
                  => /\ runs'[t].pc = "sleep_delay"
                     /\ \A k \in DOMAIN loop_queue' :
                           loop_queue'[k].id # runs[t].contact.id
                     /\ totals_index(loop_totals', runs[t].instance_id,
                                      runs[t].contact.phone) # {}
                     /\ Len(loop_events') = Len(loop_events) + 1
                     /\ loop_events'[Len(loop_events')].event_type = "item"
                     /\ loop_events'[Len(loop_events')].phone = runs[t].contact.phone
            /\ (runs[t].pc \in {"sleep_delay", "sleep_window"} /\ runs'[t] # runs[t])
                  => /\ runs'[t].pc = "done"
                     /\ runs'[t].ends = 1
                     /\ Len(loop_events') = Len(loop_events) + 1
                     /\ last_event_is(loop_events', t, "end", "manual_stop")
            /\ (runs[t].pc = "created" /\ runs'[t] # runs[t])
                  => \/ runs'[t].pc = "failed"
                     \/ /\ runs'[t].pc = "done"
                        /\ \/ last_event_is(loop_events', t, "end", "manual_stop")
                           \/ last_event_is(loop_events', t, "end", "daily_quota")
                           \/ last_event_is(loop_events', t, "error", "no_credentials")

\* C19, amended: a run whose stop flag is set starts no send; a send that
\* was in flight when the flag was set returns and is recorded (queue row
\* deleted, totals row written, item event), and the pass after it, or after
\* the sleep the run was in, ends the run with the single end event
\* manual_stop.  A run whose flag was set before its first step sends
\* nothing and ends in that step: with manual_stop, or with what its start-up
\* checks find first (daily_quota, the error event for missing credentials,
\* or the failure before the try block).
C19_CooperativeStop == [][stopped_run_step]_vars

\* the stop flag was set during the first send; the send was recorded and the
\* run ended manual_stop with a contact still pending and quota left
C19_Witness ==
    \E t \in DOMAIN runs :
        /\ runs[t].pc = "done" /\ runs[t].stop
        /\ runs[t].attempts = 1 /\ runs[t].processed = 1
        /\ runs[t].sent_today < runs[t].daily_cap
        /\ pending_rows(loop_queue, runs[t].instance_id) # <<>>
        /\ last_event_is(loop_events, t, "end", "manual_stop")

\* C19, as claimed: every run that ended after stop_loop had set its stop
\* flag published an end event of reason manual_stop.
C19_StopEndsManual ==
    \A t \in DOMAIN runs :
        (runs[t].pc = "done" /\ runs[t].stop)
            => \E k \in DOMAIN task_events(t) :
                  /\ task_events(t)[k].event_type = "end"
                  /\ task_events(t)[k].detail = "manual_stop"

(***************************************************************************)
(* Properties of a failed send                                             *)
(***************************************************************************)
queue_ids(queue) == {queue[k].id : k \in DOMAIN queue}

\* the send of run t has just failed: the run is in the delay after it
failed_last(t) ==
    /\ runs[t].pc = "sleep_delay"
    /\ \E k \in totals_index(loop_totals, runs[t].instance_id, runs[t].contact.phone) :
          ~loop_totals[k].mensagem_enviada

\* the step in which uazapi.send_text raises
failed_send_step ==
    \A t \in DOMAIN runs :
        (/\ runs[t].pc = "sending" /\ runs'[t].pc = "sleep_delay"
         /\ runs'[t].processed = runs[t].processed)
            => LET i == runs[t].instance_id
                   c == runs[t].contact
                   rows == totals_index(loop_totals', i, c.phone)
               IN  /\ c.id \in queue_ids(loop_queue)
                   /\ c.id \notin queue_ids(loop_queue')
                   /\ Cardinality(rows) = 1
                   /\ \A k \in rows : /\ ~loop_totals'[k].mensagem_enviada
                                       /\ loop_totals'[k].status = "error"
                   /\ loop_events' =
                         Append(loop_events, Event(i, "item", "error", c.phone, t))
                   /\ runs'[t].sent_today = runs[t].sent_today
                   /\ _compute_daily_sent(loop_totals', i)
                         <= _compute_daily_sent(loop_totals, i)

\* a queue row that was consumed never comes back, and a run only sends to
\* a contact that is in the queue
no_retry_step ==
    /\ \A id \in 1..MaxAdds :
          (id < next_queue_id /\ id \notin queue_ids(loop_queue))
              => id \notin queue_ids(loop_queue')
    /\ \A t \in DOMAIN runs :
          (runs[t].pc # "sending" /\ runs'[t].pc = "sending")
              => runs'[t].contact.id \in queue_ids(loop_queue)

\* the pass after a failed send goes on with the next contact
continue_step ==
    \A t \in DOMAIN runs :
        (/\ failed_last(t) /\ ~runs[t].stop /\ ~runs'[t].stop /\ runs'[t] # runs[t]
         /\ _within_window(runs[t])
         /\ pending_rows(loop_queue, runs[t].instance_id) # <<>>
         /\ ~quota_reached(runs[t].sent_today, runs[t].daily_cap))
            => /\ runs'[t].pc = "sending"
               /\ runs'[t].contact = Head(pending_rows(loop_queue, runs[t].instance_id))
               /\ runs'[t].contact.id # runs[t].contact.id

\* C20: when the send for a contact raises, the contact's queue row is
\* deleted, its one totals row has mensagem_enviada = false and status error,
\* an item event with status error is published for its phone, the day's
\* count does not grow; the consumed queue row never comes back and is never
\* sent to again, and the next pass of the run takes the next pending contact.
C20_FailedSendConsumed ==
    [][failed_send_step /\ no_retry_step /\ continue_step]_vars

\* the first send of a run failed and the run is sending to the next contact
C20_Witness ==
    \E t \in DOMAIN runs :
        /\ runs[t].pc = "sending"
        /\ runs[t].attempts = 2 /\ runs[t].processed = 0 /\ runs[t].sent_today = 0
        /\ Len(loop_totals) = 1
        /\ ~loop_totals[1].mensagem_enviada /\ loop_totals[1].status = "error"
        /\ loop_totals[1].phone # runs[t].contact.phone
        /\ loop_events[Len(loop_events)] =
              Event(runs[t].instance_id, "item", "error", loop_totals[1].phone, t)
        /\ queue_ids(loop_queue) = {runs[t].contact.id}

(***************************************************************************)
(* Properties of the sending window                                        *)
(***************************************************************************)
\* the times of day of the window of run r: from window_start forward to
\* window_end, past midnight if window_end is the earlier one
window_times(r) ==
    {(r.window_start + k) % DayLen : k \in 0..((r.window_end - r.window_start) % DayLen)}

\* a pass of run t made while the time is outside its window
pass_outside_window ==
    \A t \in DOMAIN runs :
        (/\ runs[t].pc \in {"created", "sleep_delay", "sleep_window"}
         /\ runs'[t] # runs[t]
         /\ ~runs[t].stop /\ ~runs'[t].stop
         /\ time_of_day \notin window_times(runs'[t]))
            => /\ runs'[t].attempts = runs[t].attempts
               /\ loop_queue' = loop_queue
               /\ loop_totals' = loop_totals
               /\ \/ /\ runs'[t].pc = "sleep_window"
                     /\ runs'[t].pauses = runs[t].pauses + 1
                     /\ last_event_is(loop_events', t, "pause", "outside_window")
                  \/ /\ runs[t].pc = "created"
                     /\ \/ runs'[t].pc = "failed"
                        \/ /\ runs'[t].pc = "done"
                           /\ \/ last_event_is(loop_events', t, "end", "daily_quota")
                              \/ last_event_is(loop_events', t, "error", "no_credentials")

\* a send is only ever started at a time inside the window
send_starts_inside ==
    \A t \in DOMAIN runs :
        (runs[t].pc # "sending" /\ runs'[t].pc = "sending")
            => time_of_day \in window_times(runs'[t])

\* C21: a pass of a run made while the time is outside its window (also a
\* window that wraps past midnight) starts no send and touches neither the
\* queue nor the totals; it publishes a pause event and sleeps, and does so
\* again at the next poll if the time is still outside.  It does not end the
\* run: a run ends there only by a stop request, or in its first step by the
\* start-up checks that come before the window test.
C21_SendingWindow == [][pass_outside_window /\ send_starts_inside]_vars

\* a run with the wrapping window has polled twice outside the window, with
\* a contact pending and quota left, and is still waiting
C21_Witness ==
    \E t \in DOMAIN runs :
        /\ runs[t].pc = "sleep_window"
        /\ runs[t].window_start > runs[t].window_end
        /\ runs[t].pauses = 2
        /\ runs[t].attempts = 0
        /\ time_of_day \notin window_times(runs[t])
        /\ pending_rows(loop_queue, runs[t].instance_id) # <<>>
        /\ Len(SelectSeq(task_events(t), LAMBDA e : e.event_type = "pause")) = 2

(***************************************************************************)
(* C22                                                                     *)
(***************************************************************************)
\* the events of instance i in the log, oldest first
logged(events, i) == SelectSeq(events, LAMBDA e : e.instance_id = i)

\* what stream r has been handed or still holds: what it yielded, the rest of
\* its history and, while it is subscribed, its queue
stream_view(ls, r) ==
    r.received \o r.history \o
        (IF r.pc = "open" THEN ls[r.instance_id][r.slot] ELSE <<>>)

\* the replay a stream opened after n logged events is due: the most recent
\* ones, at most RECENT_EVENTS_LIMIT (scaled), oldest first
replay_due(events, i, n) ==
    LET k == IF n < recent_events_limit THEN n ELSE recent_events_limit
    IN  [j \in 1..k |-> logged(events, i)[n - k + j]]

replay_first ==
    \A s \in DOMAIN streams :
        LET r == streams[s]
            due == replay_due(loop_events, r.instance_id, r.logged_at_open)
        IN  /\ Len(r.received \o r.history) >= Len(due)
            /\ SubSeq(r.received \o r.history, 1, Len(due)) = due
            /\ Len(logged(loop_events, r.instance_id)) = r.logged_at_open
                   => stream_view(listeners, r) = due

live_exactly_once ==
    \A s \in DOMAIN streams :
        LET r == streams[s]
            i == r.instance_id
            old == logged(loop_events, i)
            new == logged(loop_events', i)
            published == SubSeq(new, Len(old) + 1, Len(new))
        IN  (/\ r.pc = "open"
             /\ streams'[s].pc = "open"
             /\ Len(listeners[i][r.slot]) + Len(published) <= queue_maxsize)
            => stream_view(listeners', streams'[s])
                   = stream_view(listeners, r) \o published

\* C22: a stream first yields the most recent stored events of its instance
\* (at most the limit) oldest first, and every event published for the
\* instance after it was opened reaches it exactly once, in order, right
\* after the replay, as long as its queue has room
C22_StreamContinuity == []replay_first /\ [][live_exactly_once]_vars

\* a stream opened after more events than the limit has yielded its whole
\* replay and a live event after it
C22_Witness ==
    \E s \in DOMAIN streams :
        /\ streams[s].logged_at_open > recent_events_limit
        /\ streams[s].history = <<>>
        /\ Len(streams[s].received) > recent_events_limit
        /\ Len(logged(loop_events, streams[s].instance_id)) > streams[s].logged_at_open

(***************************************************************************)
(* C23                                                                     *)
(***************************************************************************)
types_of(es) == [k \in DOMAIN es |-> es[k].event_type]

\* the types of the events a step of a run publishes, read off the run: a
\* start when the task enters, an item when a send returns, a pause when the
\* run goes to sleep outside its window, an end for every end it counts
published_types(r, r2) ==
    (IF r.pc = "created" /\ r2.pc # "failed" THEN <<"start">> ELSE <<>>)
    \o (IF r.pc = "sending" THEN <<"item">> ELSE <<>>)
    \o (IF r2.pauses > r.pauses THEN <<"pause">> ELSE <<>>)
    \o [k \in 1..(r2.ends - r.ends) |-> "end"]

\* queue q2 is queue q after the events of types ty of task t were offered
\* to it: it took them in order while it had room and nothing else
offered(q, q2, ty, j, t, new) ==
    LET room == queue_maxsize - Len(q)
        n == IF Len(ty) < room THEN Len(ty) ELSE room
        got == SubSeq(q2, Len(q) + 1, Len(q2))
    IN  /\ Len(q2) = Len(q) + n
        /\ SubSeq(q2, 1, Len(q)) = q
        /\ types_of(got) = SubSeq(ty, 1, n)
        /\ \A k \in DOMAIN got : got[k].instance_id = j /\ got[k].task = t
        /\ ~record_event_fails => got = SubSeq(new, 1, n)

fanout_step ==
    (streams' = streams /\ record_event_fails' = record_event_fails) =>
    \A j \in InstIds :
        LET movers == {t \in DOMAIN runs :
                          runs[t].instance_id = j /\ runs'[t] # runs[t]}
            old == logged(loop_events, j)
            new == SubSeq(logged(loop_events', j), Len(old) + 1,
                          Len(logged(loop_events', j)))
        IN  /\ DOMAIN listeners'[j] = DOMAIN listeners[j]
            /\ SubSeq(logged(loop_events', j), 1, Len(old)) = old
            /\ movers = {} => (listeners'[j] = listeners[j] /\ new = <<>>)
            /\ \A t \in movers :
                   LET ty == published_types(runs[t], runs'[t])
                   IN  /\ \A k \in DOMAIN listeners[j] :
                              offered(listeners[j][k], listeners'[j][k], ty, j, t, new)
                       /\ IF record_event_fails \/ j \notin DOMAIN instances
                          THEN new = <<>>
                          ELSE types_of(new) = ty
                       /\ (record_event_fails /\ runs[t].pc = "sending")
                              => runs'[t].pc = "sleep_delay"
                       /\ (record_event_fails /\ j \in DOMAIN instances)
                              => runs'[t].pc # "failed"

\* C23: a step of a run puts the events it publishes, in order, into every
\* subscriber queue of the run's instance that has room and into no queue of
\* another instance, and appends them to the log; a full queue misses them
\* while the others receive them; when recording fails the log stays as it
\* is, the queues still receive the events and the run goes on
C23_PublishFanout == [][fanout_step]_vars

\* two subscribers of one instance: the queue of the first is full and missed
\* an event that the second holds, and that event was not recorded
C23_Witness ==
    \E s1, s2 \in DOMAIN streams :
        /\ streams[s1].pc = "open" /\ streams[s2].pc = "open"
        /\ streams[s1].instance_id = streams[s2].instance_id
        /\ LET i == streams[s1].instance_id
               q1 == listeners[i][streams[s1].slot]
               q2 == listeners[i][streams[s2].slot]
           IN  /\ Len(q1) = queue_maxsize
               /\ q2 # <<>>
               /\ \A k \in DOMAIN q1 : q1[k] # q2[Len(q2)]
               /\ \A k \in DOMAIN streams[s1].received :
                      streams[s1].received[k] # q2[Len(q2)]
               /\ \A k \in DOMAIN loop_events : loop_events[k] # q2[Len(q2)]

(***************************************************************************)
(* C24                                                                     *)
(***************************************************************************)
\* the ids of the queue rows of instance i
pending_ids(queue, i) ==
    {queue[k].id : k \in {n \in DOMAIN queue : queue[n].instance_id = i}}

\* a run that waits after a send holds the contact it tried, and that
\* contact's row has left the queue
tried_contact_removed ==
    \A t \in DOMAIN runs :
        runs[t].pc = "sleep_delay" =>
            /\ runs[t].contact # NoContact
            /\ runs[t].contact.id \notin pending_ids(loop_queue, runs[t].instance_id)

\* a step that starts a send: the run is not in a send, it takes the row
\* created first among the pending rows of its instance, a row created
\* after the contact it tried before
oldest_first_step ==
    \A t \in DOMAIN runs :
        (t \in DOMAIN runs' /\ runs'[t].attempts > runs[t].attempts) =>
            LET i == runs[t].instance_id
                c == runs'[t].contact
            IN  /\ runs[t].pc \in {"created", "sleep_delay", "sleep_window"}
                /\ runs'[t].pc = "sending"
                /\ runs'[t].attempts = runs[t].attempts + 1
                /\ c # NoContact
                /\ c.id \in pending_ids(loop_queue, i)
                /\ \A id \in pending_ids(loop_queue, i) : c.id <= id
                /\ runs[t].pc = "sleep_delay" => runs[t].contact.id < c.id

\* the only way into a send is such a step
send_only_started ==
    \A t \in DOMAIN runs' :
        (runs'[t].pc = "sending" /\ (t \notin DOMAIN runs \/ runs[t].pc # "sending"))
            => (t \in DOMAIN runs /\ runs'[t].attempts = runs[t].attempts + 1)

\* C24: a run attempts the pending contacts of its instance oldest first and
\* one at a time: a send starts only when the run is in no send, and the
\* contact of the send before has left the queue by then
C24_FifoSequential ==
    []tried_contact_removed /\ [][oldest_first_step /\ send_only_started]_vars

\* a run in its second send, of the row created second, after the send of
\* the row created first has returned
C24_Witness ==
    \E t \in DOMAIN runs :
        /\ runs[t].pc = "sending"
        /\ runs[t].attempts = 2
        /\ runs[t].contact.id = 2
        /\ pending_ids(loop_queue, runs[t].instance_id) = {2}
        /\ \E k \in DOMAIN loop_events :
               loop_events[k].event_type = "item" /\ loop_events[k].task = t

(***************************************************************************)
(* C25                                                                     *)
(***************************************************************************)
\* instance i has a totals row for phone that is marked sent
marked_sent(totals, i, phone) ==
    \E k \in DOMAIN totals :
        /\ totals[k].instance_id = i
        /\ totals[k].phone = phone
        /\ totals[k].mensagem_enviada

\* an add_contact call that met a totals row marked sent answered skipped
skipped_when_sent ==
    (reply.op = "add_contact" /\ reply.fact) => reply.status = "skipped"

\* the queue gains rows one at a time at its end, never for a phone that is
\* marked sent in the instance at that moment; a call that answers skipped
\* leaves the queue as it is
gain_step ==
    /\ Len(loop_queue') > Len(loop_queue) =>
           /\ Len(loop_queue') = Len(loop_queue) + 1
           /\ SubSeq(loop_queue', 1, Len(loop_queue)) = loop_queue
           /\ ~marked_sent(loop_totals, loop_queue'[Len(loop_queue')].instance_id,
                           loop_queue'[Len(loop_queue')].phone)
    /\ (reply' # reply /\ reply'.op = "add_contact" /\ reply'.status = "skipped")
           => loop_queue' = loop_queue
    /\ \A k \in DOMAIN loop_queue' :
           (\A n \in DOMAIN loop_queue : loop_queue[n].id # loop_queue'[k].id)
               => k = Len(loop_queue') /\ Len(loop_queue') > Len(loop_queue)

\* C25: add_contact for a phone whose totals row in the instance is marked
\* sent inserts nothing and answers skipped; the queue never gains a row for
\* a phone that is marked sent
C25_NoRequeueOfSent == []skipped_when_sent /\ [][gain_step]_vars

\* add_contact has just been refused for a phone a run had sent to
C25_Witness ==
    /\ reply.op = "add_contact"
    /\ reply.status = "skipped"
    /\ reply.fact
    /\ \E k \in DOMAIN loop_totals : loop_totals[k].mensagem_enviada

(***************************************************************************)
(* C26                                                                     *)
(***************************************************************************)
\* the end and error events of task t in the log
terminal_events(t) ==
    SelectSeq(loop_events,
              LAMBDA e : e.task = t /\ e.event_type \in {"end", "error"})

started_runs ==
    {t \in DOMAIN runs :
        \E k \in DOMAIN loop_events :
            loop_events[k].task = t /\ loop_events[k].event_type = "start"}

\* C26, as claimed: a run that emitted its start event emits exactly one
\* terminal event (one end or one error) by the time it has cleaned up, and
\* none before; a run that the daily quota stops inside the loop emits a
\* single end event, with reason daily_quota.
C26_OneTerminalEvent ==
    \A t \in started_runs :
        /\ Len(terminal_events(t)) <= 1
        /\ runs[t].pc = "done" => Len(terminal_events(t)) = 1

(***************************************************************************)
(* C27                                                                     *)
(***************************************************************************)
\* the item events of successful sends of instance i to phone
successful_sends(i, phone) ==
    SelectSeq(loop_events,
              LAMBDA e : /\ e.instance_id = i
                         /\ e.event_type = "item"
                         /\ e.detail = "sent"
                         /\ e.phone = phone)

\* C27, as claimed: for any sequence of add_contact calls and runs on one
\* instance, no normalized phone number receives a successful outreach
\* message twice, also when the phone was added more than once before the
\* first send.
C27_OneMessagePerPhone ==
    \A k \in DOMAIN loop_events :
        Len(successful_sends(loop_events[k].instance_id, loop_events[k].phone)) <= 1
        \/ loop_events[k].event_type # "item"

(***************************************************************************)
(* C28                                                                     *)
(***************************************************************************)
\* every (instance, phone) marked sent before the step is marked sent after it
sent_flag_kept ==
    \A k \in DOMAIN loop_totals :
        loop_totals[k].mensagem_enviada =>
            marked_sent(loop_totals', loop_totals[k].instance_id, loop_totals[k].phone)

\* C28, as claimed: once the totals row of (instance_id, phone) has
\* mensagem_enviada = true, no later step of the loop (in particular a later
\* failed send to the same phone) sets it back to false.
C28_SentFlagMonotonic == [][sent_flag_kept]_vars

(***************************************************************************)
(* C29                                                                     *)
(***************************************************************************)
\* the ai_memory rows of the conversation of one sender with one instance
conversation(mem, number, instance_id) ==
    SelectSeq(mem, LAMBDA m : m.instance_id = instance_id /\ m.number = number)

\* the step in which a call reads its history: it reads what it would read
\* if no other sender had ever written to the instance's memory
isolated_history_step ==
    \A c \in DOMAIN calls :
        (c \in DOMAIN calls' /\ calls[c].pc = "sleep_commit" /\ calls'[c].pc = "llm") =>
            calls'[c].history =
                get_history(conversation(ai_memory, calls[c].number, calls[c].instance_id),
                            calls[c].number, calls[c].instance_id)

\* C29, as claimed: the history process_message hands to the model for a
\* sender does not depend on the messages of, or the replies to, another
\* sender of the same instance.
C29_ConversationIsolation == [][isolated_history_step]_vars

(***************************************************************************)
(* C30                                                                     *)
(***************************************************************************)
\* C30, as claimed: whenever no _run_loop task runs for an instance (also
\* after a run failed and after a restart of the process, which empties the
\* task table), the persisted loop_status of the instance is idle:
\* loop_status = running implies is_running(instance_id).
C30_StatusAgreesWithRegistry ==
    \A i \in DOMAIN loop_settings :
        loop_settings[i].loop_status = "running" => is_running(i)

\* the runs of instance i, and the one started last
runs_of(i) == {t \in DOMAIN runs : runs[t].instance_id = i}
last_run_of(i) == CHOOSE t \in runs_of(i) : \A u \in runs_of(i) : u <= t

\* the status says running while no task runs
stale_status(i) ==
    /\ i \in DOMAIN loop_settings
    /\ loop_settings[i].loop_status = "running"
    /\ ~is_running(i)

stale_only_after_restart ==
    \A i \in InstIds :
        stale_status(i) => (runs_of(i) # {} /\ runs[last_run_of(i)].pc = "killed")

\* the step in which a run ends through its cleanup writes idle, also over a
\* status that a restart left at running
cleanup_heals ==
    \A t \in DOMAIN runs :
        (runs[t].pc # "done" /\ runs'[t].pc = "done") =>
            /\ loop_settings'[runs[t].instance_id].loop_status = "idle"
            /\ ~stale_status(runs[t].instance_id)'

\* C30, amended: loop_status = running implies is_running(instance_id) as
\* long as the process has not restarted under a live run; after such a
\* restart the status stays running with an empty task table until the
\* cleanup of the next run of the instance writes idle.
C30_StatusAgreesUntilRestart ==
    []stale_only_after_restart /\ [][cleanup_heals]_vars

\* the status of an instance says running, its task table is empty and its
\* last run was killed by a restart after it had published its start
C30_Witness ==
    \E i \in InstIds :
        /\ stale_status(i)
        /\ tasks[i] = NoTask
        /\ runs[last_run_of(i)].pc = "killed"
        /\ \E k \in DOMAIN loop_events :
               loop_events[k].task = last_run_of(i) /\ loop_events[k].event_type = "start"

====
